---- MODULE Spec2Model ----
(***************************************************************************)
(* Order lifecycle core of MARKET.js:                                      *)
(*   - OrderTransactionInfo (src/src/lib/OrderTransactionInfo.ts): the     *)
(*     transaction outcome resolver, a race between a fetch-or-watch       *)
(*     branch and an error-watch branch;                                   *)
(*   - ContractWrapper.tradeOrderAsync / cancelOrderAsync                  *)
(*     (src/src/contract_wrappers/ContractWrapper.ts): the validation      *)
(*     pipeline before a trade is submitted;                               *)
(*   - ExpirationWatcher (src/order_watcher/ExpirationWatcher, exercised   *)
(*     by src/test/ExpirationWatcher.test.ts): the expiration scheduler.   *)
(* Each component has its own specification over the shared variables;     *)
(* the variables of the other components stay at their initial values.     *)
(***************************************************************************)
EXTENDS Integers, Sequences, FiniteSets, TLC

VARIABLES
  \* ---- OrderTransactionInfo: one accessor invocation ----
  accessor,         \* "none" | "filledQty" | "cancelledQty": the getter invoked
  eventLogs,        \* what orderEvent.get(watchFilter) holds: Seq of [transactionHash, qty]
  getState,         \* "idle" | "pending" | "returned" | "failed": the historical query
  stopEventWatcher, \* the accessor's local closure: "noop" | "primary"
  stopWatcher,      \* the parameter of _fetchOrWatchFor...Qty: "noop" | "primary"
  primarySub,       \* "none" | "open" | "stopped": orderEvent.watch subscription
  errorSub,         \* "none" | "open" | "stopped": errorEvent.watch subscription
  pendingStops,     \* stop calls in flight: set of [branch, qty, code, n]
  primaryPromise,   \* the promise of _fetchOrWatchFor...Qty
  errorPromise,     \* the promise of _watchForError
  result,           \* the promise returned by the accessor
  delivered,        \* history: number of events handed to the subscriptions' callbacks
  firstMatch,       \* history: the first delivered event carrying txHash, on either stream
  \* ---- ContractWrapper.tradeOrderAsync: one call ----
  signedOrder,      \* the SignedOrder argument (the fields the pipeline reads)
  fillQty,          \* the fillQty argument
  txParams,         \* the txParams argument: [from |-> address or "undefined"]
  ledger,           \* what the remote reads of this call have returned so far
  tradePc,          \* index of the next stage of the pipeline (Len(Stages)+1: submit)
  evaluated,        \* history: the checks evaluated so far, in order
  tradeResult,      \* the promise returned by tradeOrderAsync
  submitted,        \* number of tradeOrderTx transactions sent
  resolvers,        \* number of OrderTransactionInfo objects constructed
  \* ---- ContractWrapper.cancelOrderAsync: one call (on signedOrder, txParams) ----
  cancelQty,        \* the cancelQty argument
  cancelPc,         \* "start" | "send" | "done"
  cancelSent,       \* the cancelOrderTx transactions sent: Seq of [txHash, orderQty, cancelQty]
  cancelResult,     \* the promise returned by cancelOrderAsync
  \* ---- ExpirationWatcher: one instance ----
  entries,          \* pending entries, ascending by expirationInstantMs
  timer,            \* deadline of the one outstanding timer, NoTimer when none
  clock,            \* the current time in ms
  subscribed,       \* "never" | "yes" | "unsubscribed"
  emitted,          \* history: the observer's invocations, in order
  adds,             \* history: number of addOrder calls made
  liveTimers,       \* number of timers set and neither cancelled nor fired
  \* ---- depositCollateralAsync / withdrawCollateralAsync: calls one after another ----
  collateralCall,   \* the call in progress: [op, via, amount, sentBefore, poolBefore]
  collateralPc,     \* 0: contract set lookup, k: k-th pre-check, Len(checks)+1: send
  collateralReads,  \* the remote reads of this call, in order: Seq of [check, value]
  collateralResult, \* the promise returned by the call
  collateralSent,   \* the pool transactions sent: Seq of [op, amount]
  collateralCalls,  \* history: number of calls made
  enabledFor,       \* ledger: isUserEnabledForContract(address, caller), per address
  poolTokenBalance, \* ledger: the collateral pool's balance of the collateral token
  \* ---- ContractWrapper contract set cache: one wrapper instance ----
  contractSetByMarketContractAddress,        \* normalized address -> ContractSet instance
  contractSetByMarketCollateralPoolAddress,  \* pool address -> ContractSet instance
  lookups,          \* the calls made: Seq of [address, pc, contractSetWrapper, hit]
  constructed,      \* number of ContractSet instances constructed so far
  remoteReads,      \* number of reads of the market contract made so far
  \* ---- ContractWrapper.calculateNeededCollateralAsync: calls at one price ----
  marketContract,   \* ledger: [PRICE_FLOOR, PRICE_CAP, QTY_MULTIPLIER] of the contract
  calcPrice,        \* the price argument
  calcQty,          \* the qty argument of the call in progress
  calcPc,           \* CalcIdle | 0: lookup | 1..3: the parameter read next | CalcRejected
  calcReads,        \* the parameters read by the call in progress, in order
  calculated,       \* the results returned so far: qty -> needed collateral
  \* ---- one OrderTransactionInfo object, its transaction and its two accessors ----
  chainTx,          \* the transaction on chain: [blockNumber, logs, mined]
  constructedBy,    \* the code path that built the object
  orderTxInfo,      \* the object's fields: [fromBlockNumber, toBlockNumber]
  invocations,      \* accessor -> the state of its invocation
  \* ---- the ledger and the clock while a tradeOrderAsync call is suspended ----
  remoteChanges,    \* field already read -> the value the ledger holds for it now, if changed
  tradeClock,       \* the current unix time
  \* ---- ContractWrapper token contract cache: one wrapper instance ----
  tokenContractsByAddress,  \* normalized token address -> ERC20 instance
  tokenCalls,       \* the calls made: Seq of [tokenAddress, tokenContract, received]
  tokensConstructed,\* number of ERC20 instances constructed so far
  \* ---- lib/Order createSignedOrderAsync: one call ----
  orderArgs,        \* the order fields passed to the call
  signedOrderPc,    \* 0: not called | 1: createAndValidate | 2: createOrderHash | 3: signMessage | 4: over
  remoteCalls,      \* how each remote call ended: "none" | "returned" | "failed"
  orderHashPromise, \* the promise of createOrderHashAsync: [status, value]
  signedOrderPromise \* the promise of createSignedOrderAsync: [status, ecSignature]

resolverVars == <<accessor, eventLogs, getState, stopEventWatcher, stopWatcher,
                  primarySub, errorSub, pendingStops, primaryPromise, errorPromise,
                  result, delivered, firstMatch>>

tradeVars == <<signedOrder, fillQty, txParams, ledger, tradePc, evaluated, tradeResult,
               submitted, resolvers>>

watcherVars == <<entries, timer, clock, subscribed, emitted, adds, liveTimers>>

cancelVars == <<cancelQty, cancelPc, cancelSent, cancelResult>>

collateralVars == <<collateralCall, collateralPc, collateralReads, collateralResult,
                    collateralSent, collateralCalls, enabledFor, poolTokenBalance>>

cacheVars == <<contractSetByMarketContractAddress, contractSetByMarketCollateralPoolAddress,
               lookups, constructed, remoteReads>>

calcVars == <<marketContract, calcPrice, calcQty, calcPc, calcReads, calculated>>

orderTxInfoVars == <<chainTx, constructedBy, orderTxInfo, invocations>>

raceVars == <<remoteChanges, tradeClock>>

tokenVars == <<tokenContractsByAddress, tokenCalls, tokensConstructed>>

orderSignVars == <<orderArgs, signedOrderPc, remoteCalls, orderHashPromise, signedOrderPromise>>

vars == <<resolverVars, tradeVars, cancelVars, watcherVars, collateralVars, cacheVars, calcVars, orderTxInfoVars, raceVars, tokenVars, orderSignVars>>

\* ---------------------------------------------------------------------------
\* Bounds
\* ---------------------------------------------------------------------------
MaxLogs == 1      \* length of the historical log returned by get()
MaxEvents == 2    \* number of events delivered to live subscriptions
MaxQty == 2       \* quantities carried by filled/cancelled events: 1..MaxQty
MaxCode == 2      \* error codes carried by error events: 0..MaxCode
MaxAmount == 1    \* fees, token balances, allowances and pool balances: 0..MaxAmount
MaxClock == 2     \* the clock and the expiration instants range over 0..MaxClock
MaxAdds == 2      \* number of addOrder calls on one ExpirationWatcher
MaxCalls == 2     \* number of deposit/withdraw calls made one after another
MaxLookups == 3   \* number of contract set lookups made on one wrapper
MaxPrice == 3     \* price floor, price cap and price range over 0..MaxPrice
MaxMultiplier == 2 \* the contract's quantity multiplier: 1..MaxMultiplier
MaxBlock == 2     \* the block a transaction is mined in: 1..MaxBlock
MaxChanges == 1   \* changes of the ledger and ticks of the clock during one trade call
MaxTokenCalls == 3 \* number of getERC20TokenContractAsync calls made on one wrapper
MaxSalt == 2      \* the salt of an order: 1..MaxSalt

\* ---------------------------------------------------------------------------
\* OrderTransactionInfo
\* ---------------------------------------------------------------------------
txHash == "A"
Hashes == {"A", "B"}

ORDER_EXPIRED_CODE == 0
ORDER_DEAD_CODE == 1

Quantities == 1..MaxQty
ErrorCodes == 0..MaxCode

QtyEvents == [transactionHash : Hashes, qty : Quantities]
ErrEvents == [transactionHash : Hashes, errorCode : ErrorCodes]

LogSeqs == UNION {[1..n -> QtyEvents] : n \in 0..MaxLogs}

PendingPromise == [status |-> "pending", qty |-> 0, kind |-> "none", by |-> "none", code |-> -1]
Resolved(q, b) == [status |-> "resolved", qty |-> q, kind |-> "none", by |-> b, code |-> -1]
Rejected(k, b, c) == [status |-> "rejected", qty |-> 0, kind |-> k, by |-> b, code |-> c]

NoMatch == [stream |-> "none", qty |-> 0, code |-> -1]

\* resolve()/reject() on a promise that is already settled is a no-op
Settle(p, outcome) == IF p.status = "pending" THEN outcome ELSE p

\* the switch of _watchForError
ErrorKindOf(code) ==
  IF code = ORDER_EXPIRED_CODE THEN "OrderExpired"
  ELSE IF code = ORDER_DEAD_CODE THEN "OrderDead"
  ELSE "UnknownOrderError"

\* eventLogs.find(eventLog => eventLog.transactionHash === this.txHash)
MatchingIndexes(logs) == {i \in 1..Len(logs) : logs[i].transactionHash = txHash}
HasFoundEvent(logs) == MatchingIndexes(logs) # {}
FoundEvent(logs) ==
  logs[CHOOSE i \in MatchingIndexes(logs) : \A j \in MatchingIndexes(logs) : i <= j]

\* get filledQtyAsync / get cancelledQtyAsync: the synchronous part of
\* Promise.race([_fetchOrWatchFor...Qty(stopEventWatcher), _watchForError()]):
\* the first executor runs up to `await orderEvent.get(...)`, the second
\* opens the error subscription at once.
Invoke(acc) ==
  /\ accessor = "none"
  /\ accessor' = acc
  /\ getState' = "pending"
  /\ errorSub' = "open"
  /\ UNCHANGED <<eventLogs, stopEventWatcher, stopWatcher, primarySub, pendingStops,
                 primaryPromise, errorPromise, result, delivered, firstMatch>>
  /\ UNCHANGED <<tradeVars, cancelVars, watcherVars, collateralVars, cacheVars, calcVars, orderTxInfoVars, raceVars, tokenVars, orderSignVars>>

\* mutant: the `return` after resolve() is missing, the watch is opened anyway
GetReturnsAndWatches ==
  /\ getState = "pending"
  /\ getState' = "returned"
  /\ IF HasFoundEvent(eventLogs)
       THEN /\ primaryPromise' = Settle(primaryPromise, Resolved(FoundEvent(eventLogs).qty, "primary"))
            /\ result' = Settle(result, Resolved(FoundEvent(eventLogs).qty, "primary"))
       ELSE UNCHANGED <<primaryPromise, result>>
  /\ primarySub' = "open"
  /\ stopWatcher' = "primary"
  /\ UNCHANGED <<accessor, eventLogs, stopEventWatcher, errorSub, pendingStops,
                 errorPromise, delivered, firstMatch>>
  /\ UNCHANGED <<tradeVars, cancelVars, watcherVars, collateralVars, cacheVars, calcVars, orderTxInfoVars, raceVars, tokenVars, orderSignVars>>

\* orderEvent.get resolves: either the event is found and the branch resolves,
\* or the live subscription is opened and assigned to the PARAMETER stopWatcher
\* (the caller's stopEventWatcher is a different variable and keeps its no-op).
GetReturns ==
  /\ getState = "pending"
  /\ getState' = "returned"
  /\ IF HasFoundEvent(eventLogs)
       THEN /\ primaryPromise' = Settle(primaryPromise, Resolved(FoundEvent(eventLogs).qty, "primary"))
            /\ result' = Settle(result, Resolved(FoundEvent(eventLogs).qty, "primary"))
            /\ UNCHANGED <<primarySub, stopWatcher>>
       ELSE /\ primarySub' = "open"
            /\ stopWatcher' = "primary"
            /\ UNCHANGED <<primaryPromise, result>>
  /\ UNCHANGED <<accessor, eventLogs, stopEventWatcher, errorSub, pendingStops,
                 errorPromise, delivered, firstMatch>>
  /\ UNCHANGED <<tradeVars, cancelVars, watcherVars, collateralVars, cacheVars, calcVars, orderTxInfoVars, raceVars, tokenVars, orderSignVars>>

\* orderEvent.get rejects: the async executor throws, nothing settles the
\* branch's promise and no subscription is opened.
GetFails ==
  /\ getState = "pending"
  /\ getState' = "failed"
  /\ UNCHANGED <<accessor, eventLogs, stopEventWatcher, stopWatcher, primarySub, errorSub,
                 pendingStops, primaryPromise, errorPromise, result, delivered, firstMatch>>
  /\ UNCHANGED <<tradeVars, cancelVars, watcherVars, collateralVars, cacheVars, calcVars, orderTxInfoVars, raceVars, tokenVars, orderSignVars>>

\* the callback of orderEvent.watch: a matching event calls stopWatcher()
\* and settles only when that call has finished
DeliverPrimary(e) ==
  /\ primarySub = "open"
  /\ delivered < MaxEvents
  /\ delivered' = delivered + 1
  /\ firstMatch' = IF e.transactionHash = txHash /\ firstMatch = NoMatch
                     THEN [stream |-> "primary", qty |-> e.qty, code |-> -1]
                     ELSE firstMatch
  /\ pendingStops' =
       IF e.transactionHash = txHash
         THEN pendingStops \cup {[branch |-> "primary", qty |-> e.qty, code |-> -1,
                                  n |-> delivered + 1]}
         ELSE pendingStops
  /\ UNCHANGED <<accessor, eventLogs, getState, stopEventWatcher, stopWatcher, primarySub,
                 errorSub, primaryPromise, errorPromise, result>>
  /\ UNCHANGED <<tradeVars, cancelVars, watcherVars, collateralVars, cacheVars, calcVars, orderTxInfoVars, raceVars, tokenVars, orderSignVars>>

\* mutant: the callback acts on every error event of the contract, whatever
\* transaction it belongs to
DeliverErrorOfAnyTransaction(e) ==
  /\ errorSub = "open"
  /\ delivered < MaxEvents
  /\ delivered' = delivered + 1
  /\ firstMatch' = IF e.transactionHash = txHash /\ firstMatch = NoMatch
                     THEN [stream |-> "error", qty |-> 0, code |-> e.errorCode]
                     ELSE firstMatch
  /\ pendingStops' =
       pendingStops \cup {[branch |-> "error", qty |-> 0, code |-> e.errorCode,
                           n |-> delivered + 1]}
  /\ UNCHANGED <<accessor, eventLogs, getState, stopEventWatcher, stopWatcher, primarySub,
                 errorSub, primaryPromise, errorPromise, result>>
  /\ UNCHANGED <<tradeVars, cancelVars, watcherVars, collateralVars, cacheVars, calcVars, orderTxInfoVars, raceVars, tokenVars, orderSignVars>>

\* the callback of errorEvent.watch
DeliverError(e) ==
  /\ errorSub = "open"
  /\ delivered < MaxEvents
  /\ delivered' = delivered + 1
  /\ firstMatch' = IF e.transactionHash = txHash /\ firstMatch = NoMatch
                     THEN [stream |-> "error", qty |-> 0, code |-> e.errorCode]
                     ELSE firstMatch
  /\ pendingStops' =
       IF e.transactionHash = txHash
         THEN pendingStops \cup {[branch |-> "error", qty |-> 0, code |-> e.errorCode,
                                  n |-> delivered + 1]}
         ELSE pendingStops
  /\ UNCHANGED <<accessor, eventLogs, getState, stopEventWatcher, stopWatcher, primarySub,
                 errorSub, primaryPromise, errorPromise, result>>
  /\ UNCHANGED <<tradeVars, cancelVars, watcherVars, collateralVars, cacheVars, calcVars, orderTxInfoVars, raceVars, tokenVars, orderSignVars>>

\* what the branch settles with once its stop call has resolved
StopOutcome(s) ==
  IF s.branch = "primary" THEN Resolved(s.qty, "primary")
  ELSE Rejected(ErrorKindOf(s.code), "error", s.code)

\* the accessor's catch block: await stopEventWatcher(), then reject(err).
\* stopEventWatcher is the accessor's own closure.
CatchCleanup(sub) == IF stopEventWatcher = "primary" /\ sub = "open" THEN "stopped" ELSE sub

\* stopWatcher() / stopErrorEventWatcher() resolves: .then(...) settles the branch
StopSucceeds(s) ==
  /\ s \in pendingStops
  /\ pendingStops' = pendingStops \ {s}
  /\ LET out == StopOutcome(s)
         wins == result.status = "pending"
     IN /\ IF s.branch = "primary"
             THEN /\ primaryPromise' = Settle(primaryPromise, out)
                  /\ primarySub' = "stopped"
                  /\ UNCHANGED <<errorPromise, errorSub>>
             ELSE /\ errorPromise' = Settle(errorPromise, out)
                  /\ errorSub' = "stopped"
                  /\ primarySub' = IF wins THEN CatchCleanup(primarySub) ELSE primarySub
                  /\ UNCHANGED primaryPromise
        /\ result' = Settle(result, out)
  /\ UNCHANGED <<accessor, eventLogs, getState, stopEventWatcher, stopWatcher, delivered,
                 firstMatch>>
  /\ UNCHANGED <<tradeVars, cancelVars, watcherVars, collateralVars, cacheVars, calcVars, orderTxInfoVars, raceVars, tokenVars, orderSignVars>>

\* stopWatcher() / stopErrorEventWatcher() rejects: .catch(reject) hands the
\* transport failure to the branch's promise; the subscription is not stopped
StopFails(s) ==
  /\ s \in pendingStops
  /\ pendingStops' = pendingStops \ {s}
  /\ LET out == Rejected("TransportFailure", s.branch, s.code)
         wins == result.status = "pending"
     IN /\ IF s.branch = "primary"
             THEN /\ primaryPromise' = Settle(primaryPromise, out)
                  /\ UNCHANGED errorPromise
             ELSE /\ errorPromise' = Settle(errorPromise, out)
                  /\ UNCHANGED primaryPromise
        /\ primarySub' = IF wins THEN CatchCleanup(primarySub) ELSE primarySub
        /\ result' = Settle(result, out)
  /\ UNCHANGED <<accessor, eventLogs, getState, stopEventWatcher, stopWatcher, errorSub,
                 delivered, firstMatch>>
  /\ UNCHANGED <<tradeVars, cancelVars, watcherVars, collateralVars, cacheVars, calcVars, orderTxInfoVars, raceVars, tokenVars, orderSignVars>>

\* the callbacks of orderEvent.watch and errorEvent.watch invoked with a
\* transport error: console.log(err), then `eventLog.transactionHash` is read
\* with no event at hand and the callback throws into the subscription's
\* poller; no resolve, reject or stop call is reached
WatchCallbackError(stream) ==
  /\ IF stream = "primary" THEN primarySub = "open" ELSE errorSub = "open"
  /\ UNCHANGED vars

ResolverNext ==
  \/ \E acc \in {"filledQty", "cancelledQty"} : Invoke(acc)
  \/ GetReturns
  \/ GetFails
  \/ \E e \in QtyEvents : DeliverPrimary(e)
  \/ \E e \in ErrEvents : DeliverError(e)
  \/ \E s \in pendingStops : StopSucceeds(s)
  \/ \E s \in pendingStops : StopFails(s)
  \/ \E stream \in {"primary", "error"} : WatchCallbackError(stream)

\* ---------------------------------------------------------------------------
\* ContractWrapper.tradeOrderAsync
\* ---------------------------------------------------------------------------
NULL_ADDRESS == "0x0"
Takers == {NULL_ADDRESS, "taker", "taker2"}
Senders == {"undefined", "taker"}

Now == 2                      \* Utils.getCurrentUnixTimestampSec() during the call
Expirations == (Now - 1)..(Now + 1)
Amounts == 0..MaxAmount
FillQtys == {-1, 0, 1}
OrderQtys == FillQtys \ {0}

PRICE_FLOOR == 0
PRICE_CAP == 2
QTY_MULTIPLIER == 1

Abs(x) == IF x < 0 THEN 0 - x ELSE x

\* BigNumber.isPositive(): the sign of the number, zero counting as positive
isPositive(x) == x >= 0

\* mutant: either side is charged for the whole range between the bounds
calculateNeededCollateralFullRange(priceFloor, priceCap, qtyMultiplier, qty, price) ==
  qtyMultiplier * Abs(qty) * (priceCap - priceFloor)

\* Utils.calculateNeededCollateral(priceFloor, priceCap, qtyMultiplier, qty, price)
calculateNeededCollateral(priceFloor, priceCap, qtyMultiplier, qty, price) ==
  IF qty > 0 THEN qtyMultiplier * Abs(qty) * (price - priceFloor)
  ELSE qtyMultiplier * Abs(qty) * (priceCap - price)

\* mutant: the requirement is computed for the size of the trade, as for a
\* long position, whatever the sign of qty
calculateNeededCollateralAsyncUnsigned(qty, price) ==
  calculateNeededCollateral(PRICE_FLOOR, PRICE_CAP, QTY_MULTIPLIER, Abs(qty), price)

\* ContractWrapper.calculateNeededCollateralAsync(marketContractAddress, qty, price)
calculateNeededCollateralAsync(qty, price) ==
  calculateNeededCollateral(PRICE_FLOOR, PRICE_CAP, QTY_MULTIPLIER, qty, price)

\* mutant: a call without a sender is taken to come from the order's taker
TakerOfOrderWhenAbsent(params) ==
  IF params.from # "undefined" THEN params.from ELSE signedOrder.taker

\* const taker = txParams.from ? txParams.from : constants.NULL_ADDRESS
TakerOf(params) == IF params.from # "undefined" THEN params.from ELSE NULL_ADDRESS

\* mutant: a balance or allowance equal to the fee is refused
CheckFailsUnlessAboveFee(c, l) ==
  CASE c = "settled" -> l.isSettled
    [] c = "taker" -> signedOrder.taker # NULL_ADDRESS /\ signedOrder.taker # TakerOf(txParams)
    [] c = "expiry" -> signedOrder.expirationTimestamp < Now
    [] c = "remainingQty" -> signedOrder.remainingQty = 0
    [] c = "buySell" -> isPositive(signedOrder.orderQty) # isPositive(fillQty)
    [] c = "signature" -> ~l.validSignature
    [] c = "usersEnabled" -> ~l.isMakerEnabled \/ ~l.isTakerEnabled
    [] c = "makerFeeBalance" -> l.makerMktBalance <= signedOrder.makerFee
    [] c = "makerFeeAllowance" -> l.makersMktAllowance < signedOrder.makerFee
    [] c = "takerFeeBalance" -> l.takerMktBalance < signedOrder.takerFee
    [] c = "takerFeeAllowance" -> l.takersMktAllowance <= signedOrder.takerFee
    [] c = "makerCollateral" ->
         l.makerCollateralBalance < calculateNeededCollateralAsync(fillQty, signedOrder.price)
    [] c = "takerCollateral" ->
         l.takerCollateralBalance < calculateNeededCollateralAsync(fillQty * (-1), signedOrder.price)

\* the condition under which each check of tradeOrderAsync rejects, l being
\* what the remote reads have returned
CheckFails(c, l) ==
  CASE c = "settled" -> l.isSettled
    [] c = "taker" -> signedOrder.taker # NULL_ADDRESS /\ signedOrder.taker # TakerOf(txParams)
    [] c = "expiry" -> signedOrder.expirationTimestamp < Now
    [] c = "remainingQty" -> signedOrder.remainingQty = 0
    [] c = "buySell" -> isPositive(signedOrder.orderQty) # isPositive(fillQty)
    [] c = "signature" -> ~l.validSignature
    [] c = "usersEnabled" -> ~l.isMakerEnabled \/ ~l.isTakerEnabled
    [] c = "makerFeeBalance" -> l.makerMktBalance < signedOrder.makerFee
    [] c = "makerFeeAllowance" -> l.makersMktAllowance < signedOrder.makerFee
    [] c = "takerFeeBalance" -> l.takerMktBalance < signedOrder.takerFee
    [] c = "takerFeeAllowance" -> l.takersMktAllowance < signedOrder.takerFee
    [] c = "makerCollateral" ->
         l.makerCollateralBalance < calculateNeededCollateralAsync(fillQty, signedOrder.price)
    [] c = "takerCollateral" ->
         l.takerCollateralBalance < calculateNeededCollateralAsync(fillQty * (-1), signedOrder.price)

\* the MarketError each check rejects with
ErrorOf(c) ==
  CASE c = "settled" -> "ContractAlreadySettled"
    [] c = "taker" -> "InvalidTaker"
    [] c = "expiry" -> "OrderExpired"
    [] c = "remainingQty" -> "OrderFilledOrCancelled"
    [] c = "buySell" -> "BuySellMismatch"
    [] c = "signature" -> "InvalidSignature"
    [] c = "usersEnabled" -> "UserNotEnabledForContract"
    [] c = "makerFeeBalance" -> "InsufficientBalanceForTransfer"
    [] c = "makerFeeAllowance" -> "InsufficientAllowanceForTransfer"
    [] c = "takerFeeBalance" -> "InsufficientBalanceForTransfer"
    [] c = "takerFeeAllowance" -> "InsufficientAllowanceForTransfer"
    [] c = "makerCollateral" -> "InsufficientCollateralBalance"
    [] c = "takerCollateral" -> "InsufficientCollateralBalance"

\* mutant: the expiry check is made before the taker check
StagesExpiryBeforeTaker ==
  << <<"settled", "expiry", "taker", "remainingQty", "buySell">>,
     <<"signature">>,
     <<"usersEnabled">>,
     <<"makerFeeBalance">>,
     <<"makerFeeAllowance">>,
     <<"takerFeeBalance">>,
     <<"takerFeeAllowance">>,
     <<"makerCollateral", "takerCollateral">> >>

\* The pipeline of tradeOrderAsync. A stage is the remote reads awaited
\* together with the checks made on their results before the next await.
Stages ==
  << <<"settled", "taker", "expiry", "remainingQty", "buySell">>,
     <<"signature">>,
     <<"usersEnabled">>,
     <<"makerFeeBalance">>,
     <<"makerFeeAllowance">>,
     <<"takerFeeBalance">>,
     <<"takerFeeAllowance">>,
     <<"makerCollateral", "takerCollateral">> >>

SubmitPc == Len(Stages) + 1
DonePc == Len(Stages) + 2

\* mutant: the order hash is computed and the signature verified together
\* with the settled-status read
StageReadsSignatureFirst ==
  << {"isSettled", "validSignature"},
     {"validSignature"},
     {"isMakerEnabled", "isTakerEnabled"},
     {"makerMktBalance"},
     {"makersMktAllowance"},
     {"takerMktBalance"},
     {"takersMktAllowance"},
     {"makerCollateralBalance", "takerCollateralBalance"} >>

\* the remote reads awaited by each stage, in the order of Stages
StageReads ==
  << {"isSettled"},
     {"validSignature"},
     {"isMakerEnabled", "isTakerEnabled"},
     {"makerMktBalance"},
     {"makersMktAllowance"},
     {"takerMktBalance"},
     {"takersMktAllowance"},
     {"makerCollateralBalance", "takerCollateralBalance"} >>

\* what the reads of stage pc may return: flags for the first three stages,
\* token amounts for the others
ReadingsOf(pc) == [StageReads[pc] -> IF pc <= 3 THEN BOOLEAN ELSE Amounts]

\* nothing has been read yet
NothingRead == [f \in {} |-> FALSE]

\* mutant: the taker's collateral is never compared
FailingInWithoutTakerCollateral(cs, l) ==
  {i \in 1..Len(cs) : CheckFails(cs[i], l) /\ cs[i] # "takerCollateral"}

FailingIn(cs, l) == {i \in 1..Len(cs) : CheckFails(cs[i], l)}
FirstFailingIn(cs, l) == CHOOSE i \in FailingIn(cs, l) : \A j \in FailingIn(cs, l) : i <= j

TradePending == [status |-> "pending", error |-> "none"]

\* mutant: a failing check is recorded but does not stop the pipeline
TradeStageAdvancesOnFailure ==
  /\ tradePc <= Len(Stages)
  /\ \E reading \in ReadingsOf(tradePc) :
       LET cs == Stages[tradePc]
           l == ledger @@ reading
       IN /\ ledger' = l
          /\ evaluated' = evaluated \o cs
          /\ tradePc' = tradePc + 1
          /\ UNCHANGED tradeResult
  /\ UNCHANGED <<signedOrder, fillQty, txParams, submitted, resolvers>>
  /\ UNCHANGED <<resolverVars, cancelVars, watcherVars, collateralVars, cacheVars, calcVars, orderTxInfoVars, raceVars, tokenVars, orderSignVars>>

\* One stage of tradeOrderAsync: its remote reads return, its checks are made
\* in order, and the first failing one rejects the call.
TradeStage ==
  /\ tradePc <= Len(Stages)
  /\ \E reading \in ReadingsOf(tradePc) :
       LET cs == Stages[tradePc]
           l == ledger @@ reading
       IN /\ ledger' = l
          /\ IF FailingIn(cs, l) = {}
               THEN /\ evaluated' = evaluated \o cs
                    /\ tradePc' = tradePc + 1
                    /\ UNCHANGED tradeResult
               ELSE /\ evaluated' = evaluated \o SubSeq(cs, 1, FirstFailingIn(cs, l))
                    /\ tradePc' = DonePc
                    /\ tradeResult' = [status |-> "rejected",
                                       error |-> ErrorOf(cs[FirstFailingIn(cs, l)])]
  /\ UNCHANGED <<signedOrder, fillQty, txParams, submitted, resolvers>>
  /\ UNCHANGED <<resolverVars, cancelVars, watcherVars, collateralVars, cacheVars, calcVars, orderTxInfoVars, raceVars, tokenVars, orderSignVars>>

\* mutant: the submitted quantity is taken off the order's remainingQty
TradeSubmitUpdatesOrder ==
  /\ tradePc = SubmitPc
  /\ submitted' = submitted + 1
  /\ resolvers' = resolvers + 1
  /\ tradeResult' = [status |-> "resolved", error |-> "none"]
  /\ tradePc' = DonePc
  /\ signedOrder' = [signedOrder EXCEPT !.remainingQty = @ - Abs(fillQty)]
  /\ UNCHANGED <<fillQty, txParams, ledger, evaluated>>
  /\ UNCHANGED <<resolverVars, cancelVars, watcherVars, collateralVars, cacheVars, calcVars, orderTxInfoVars, raceVars, tokenVars, orderSignVars>>

\* tradeOrderTx(...).send(txParams) returns the hash; the OrderTransactionInfo
\* is constructed and the call resolves with it
TradeSubmit ==
  /\ tradePc = SubmitPc
  /\ submitted' = submitted + 1
  /\ resolvers' = resolvers + 1
  /\ tradeResult' = [status |-> "resolved", error |-> "none"]
  /\ tradePc' = DonePc
  /\ UNCHANGED <<signedOrder, fillQty, txParams, ledger, evaluated>>
  /\ UNCHANGED <<resolverVars, cancelVars, watcherVars, collateralVars, cacheVars, calcVars, orderTxInfoVars, raceVars, tokenVars, orderSignVars>>

\* a remote read of the current stage throws: the call rejects with the
\* transport's error and nothing is sent
TradeReadFails ==
  /\ tradePc <= Len(Stages)
  /\ tradeResult' = [status |-> "rejected", error |-> "TransportFailure"]
  /\ tradePc' = DonePc
  /\ UNCHANGED <<signedOrder, fillQty, txParams, ledger, evaluated, submitted, resolvers>>
  /\ UNCHANGED <<resolverVars, cancelVars, watcherVars, collateralVars, cacheVars, calcVars, orderTxInfoVars, raceVars, tokenVars, orderSignVars>>

\* send() throws: the transaction was not accepted, no resolver is built
TradeSendFails ==
  /\ tradePc = SubmitPc
  /\ tradeResult' = [status |-> "rejected", error |-> "TransportFailure"]
  /\ tradePc' = DonePc
  /\ UNCHANGED <<signedOrder, fillQty, txParams, ledger, evaluated, submitted, resolvers>>
  /\ UNCHANGED <<resolverVars, cancelVars, watcherVars, collateralVars, cacheVars, calcVars, orderTxInfoVars, raceVars, tokenVars, orderSignVars>>

TradeNext ==
  \/ TradeStage
  \/ TradeSubmit
  \/ TradeReadFails
  \/ TradeSendFails

\* the values a remote read of field f can return
FieldValues(f) ==
  IF f \in {"isSettled", "validSignature", "isMakerEnabled", "isTakerEnabled"}
    THEN BOOLEAN ELSE Amounts

\* what the ledger holds now for the fields the call has read
CurrentLedger ==
  [f \in DOMAIN ledger |-> IF f \in DOMAIN remoteChanges THEN remoteChanges[f] ELSE ledger[f]]

ChangesMade == Cardinality(DOMAIN remoteChanges) + (tradeClock - Now)

\* another transaction changes, on the ledger, a value the call has already
\* read, while the call awaits the reads of a later stage
LedgerChanges(f, v) ==
  /\ tradePc <= Len(Stages)
  /\ ChangesMade < MaxChanges
  /\ f \in DOMAIN ledger
  /\ v \in FieldValues(f)
  /\ v # CurrentLedger[f]
  /\ remoteChanges' = [g \in DOMAIN remoteChanges \cup {f} |->
                         IF g = f THEN v ELSE remoteChanges[g]]
  /\ UNCHANGED tradeClock
  /\ UNCHANGED <<resolverVars, tradeVars, cancelVars, watcherVars, collateralVars, cacheVars, calcVars, orderTxInfoVars, tokenVars, orderSignVars>>

\* a second passes while the call awaits the reads of a stage after the
\* first, the one whose checks read the clock
TimePasses ==
  /\ 1 < tradePc
  /\ tradePc <= Len(Stages)
  /\ ChangesMade < MaxChanges
  /\ tradeClock' = tradeClock + 1
  /\ UNCHANGED remoteChanges
  /\ UNCHANGED <<resolverVars, tradeVars, cancelVars, watcherVars, collateralVars, cacheVars, calcVars, orderTxInfoVars, tokenVars, orderSignVars>>

TradeRaceNext ==
  \/ TradeNext
  \/ \E f \in DOMAIN ledger : \E v \in FieldValues(f) : LedgerChanges(f, v)
  \/ TimePasses

\* ---------------------------------------------------------------------------
\* ContractWrapper.cancelOrderAsync
\* ---------------------------------------------------------------------------
CancelPending == [status |-> "pending", error |-> "none", txHash |-> "none"]

\* _getContractSetByMarketContractAddressAsync(order.contractAddress) returns
CancelLookup ==
  /\ cancelPc = "start"
  /\ cancelPc' = "send"
  /\ UNCHANGED <<cancelQty, cancelSent, cancelResult>>
  /\ UNCHANGED <<resolverVars, tradeVars, watcherVars, collateralVars, cacheVars, calcVars, orderTxInfoVars, raceVars, tokenVars, orderSignVars>>

\* the contract set lookup throws: the call rejects with the transport's error
CancelLookupFails ==
  /\ cancelPc = "start"
  /\ cancelPc' = "done"
  /\ cancelResult' = [status |-> "rejected", error |-> "TransportFailure", txHash |-> "none"]
  /\ UNCHANGED <<cancelQty, cancelSent>>
  /\ UNCHANGED <<resolverVars, tradeVars, watcherVars, collateralVars, cacheVars, calcVars, orderTxInfoVars, raceVars, tokenVars, orderSignVars>>

\* mutant: an expired order is refused locally
CancelSendUnlessExpired(hash) ==
  /\ cancelPc = "send"
  /\ cancelPc' = "done"
  /\ IF signedOrder.expirationTimestamp < Now
       THEN /\ cancelResult' = [status |-> "rejected", error |-> "OrderExpired",
                                txHash |-> "none"]
            /\ UNCHANGED cancelSent
       ELSE /\ cancelSent' = Append(cancelSent, [txHash |-> hash,
                                                 orderQty |-> signedOrder.orderQty,
                                                 cancelQty |-> cancelQty])
            /\ cancelResult' = [status |-> "resolved", error |-> "none", txHash |-> hash]
  /\ UNCHANGED cancelQty
  /\ UNCHANGED <<resolverVars, tradeVars, watcherVars, collateralVars, cacheVars, calcVars, orderTxInfoVars, raceVars, tokenVars, orderSignVars>>

\* cancelOrderTx(...).send(txParams) returns the transaction hash and the
\* OrderTransactionInfo is constructed on it
CancelSend(hash) ==
  /\ cancelPc = "send"
  /\ cancelPc' = "done"
  /\ cancelSent' = Append(cancelSent, [txHash |-> hash,
                                       orderQty |-> signedOrder.orderQty,
                                       cancelQty |-> cancelQty])
  /\ cancelResult' = [status |-> "resolved", error |-> "none", txHash |-> hash]
  /\ UNCHANGED cancelQty
  /\ UNCHANGED <<resolverVars, tradeVars, watcherVars, collateralVars, cacheVars, calcVars, orderTxInfoVars, raceVars, tokenVars, orderSignVars>>

\* send() throws: no resolver is built
CancelSendFails ==
  /\ cancelPc = "send"
  /\ cancelPc' = "done"
  /\ cancelResult' = [status |-> "rejected", error |-> "TransportFailure", txHash |-> "none"]
  /\ UNCHANGED <<cancelQty, cancelSent>>
  /\ UNCHANGED <<resolverVars, tradeVars, watcherVars, collateralVars, cacheVars, calcVars, orderTxInfoVars, raceVars, tokenVars, orderSignVars>>

CancelNext ==
  \/ CancelLookup
  \/ CancelLookupFails
  \/ \E hash \in Hashes : CancelSend(hash)
  \/ CancelSendFails

\* ---------------------------------------------------------------------------
\* depositCollateralAsync / withdrawCollateralAsync
\* ---------------------------------------------------------------------------
\* the two implementations in the repository: the ContractWrapper methods
\* Market delegates to, and the exported functions of lib/Collateral.ts
Vias == {"ContractWrapper", "lib"}

CollateralOps == {"deposit", "withdraw"}

\* the addresses isUserEnabledForContract is asked about
MARKET_CONTRACT == "marketContractAddress"

MKT_TOKEN == "mktTokenContract.address"

EnabledArguments == {MARKET_CONTRACT, MKT_TOKEN}

NoCall == [op |-> "none", via |-> "none", amount |-> 0, sentBefore |-> 0, poolBefore |-> 0]

CollateralPending == [status |-> "pending", error |-> "none"]

\* the pre-checks of depositCollateralAsync in the order the code makes them
DepositChecks == <<"isUserEnabled", "callerCollateralTokenBalance", "callerAllowance">>

\* the pre-check of withdrawCollateralAsync
WithdrawChecks == <<"balance">>

ChecksOf(op) == IF op = "deposit" THEN DepositChecks ELSE WithdrawChecks

\* first argument of isUserEnabledForContract: ContractWrapper passes
\* marketContractAddress, lib/Collateral.ts passes mktTokenContract.address
EnabledArgument(via) == IF via = "ContractWrapper" THEN MARKET_CONTRACT ELSE MKT_TOKEN

\* what the remote read of a pre-check can return: the ledger's answer for the
\* address asked about, the caller's share of the pool, any token balance or
\* allowance
CollateralReadings(c, call) ==
  IF c = "isUserEnabled" THEN {enabledFor[EnabledArgument(call.via)]}
  ELSE IF c = "balance" THEN 0..poolTokenBalance
  ELSE Amounts

\* mutant: an amount equal to the balance is refused
CollateralCheckFailsAtBalance(c, value, amount) ==
  IF c = "isUserEnabled" THEN ~value ELSE value <= amount

\* `!isUserEnabled`, `x.isLessThan(depositAmount)`, `balance.isLessThan(withdrawAmount)`
CollateralCheckFails(c, value, amount) ==
  IF c = "isUserEnabled" THEN ~value ELSE value < amount

CollateralErrorOf(c) ==
  CASE c = "isUserEnabled" -> "UserNotEnabledForContract"
    [] c = "callerCollateralTokenBalance" -> "InsufficientBalanceForTransfer"
    [] c = "callerAllowance" -> "InsufficientAllowanceForTransfer"
    [] c = "balance" -> "InsufficientBalanceForTransfer"

CollateralRunning == collateralCall.op # "none" /\ collateralResult.status = "pending"

\* Market.depositCollateralAsync / withdrawCollateralAsync or the function of
\* lib/Collateral.ts is called; calls are made one after another
CollateralCall(op, via, amount) ==
  /\ ~CollateralRunning
  /\ collateralCalls < MaxCalls
  /\ collateralCall' = [op |-> op, via |-> via, amount |-> amount,
                        sentBefore |-> Len(collateralSent),
                        poolBefore |-> poolTokenBalance]
  /\ collateralPc' = IF via = "ContractWrapper" THEN 0 ELSE 1
  /\ collateralReads' = <<>>
  /\ collateralResult' = CollateralPending
  /\ collateralCalls' = collateralCalls + 1
  /\ UNCHANGED <<collateralSent, enabledFor, poolTokenBalance>>
  /\ UNCHANGED <<resolverVars, tradeVars, cancelVars, watcherVars, cacheVars, calcVars, orderTxInfoVars, raceVars, tokenVars, orderSignVars>>

\* _getContractSetByMarketContractAddressAsync(marketContractAddress) returns
CollateralLookup ==
  /\ CollateralRunning
  /\ collateralPc = 0
  /\ collateralPc' = 1
  /\ UNCHANGED <<collateralCall, collateralReads, collateralResult, collateralSent,
                 collateralCalls, enabledFor, poolTokenBalance>>
  /\ UNCHANGED <<resolverVars, tradeVars, cancelVars, watcherVars, cacheVars, calcVars, orderTxInfoVars, raceVars, tokenVars, orderSignVars>>

\* a pre-check: the remote read returns and the value is compared; a failing
\* check rejects at once
CollateralCheck ==
  /\ CollateralRunning
  /\ collateralPc \in 1..Len(ChecksOf(collateralCall.op))
  /\ LET c == ChecksOf(collateralCall.op)[collateralPc] IN
       \E value \in CollateralReadings(c, collateralCall) :
         /\ collateralReads' = Append(collateralReads, [check |-> c, value |-> value])
         /\ IF CollateralCheckFails(c, value, collateralCall.amount)
              THEN /\ collateralResult' = [status |-> "rejected",
                                           error |-> CollateralErrorOf(c)]
                   /\ UNCHANGED collateralPc
              ELSE /\ collateralPc' = collateralPc + 1
                   /\ UNCHANGED collateralResult
  /\ UNCHANGED <<collateralCall, collateralSent, collateralCalls, enabledFor,
                 poolTokenBalance>>
  /\ UNCHANGED <<resolverVars, tradeVars, cancelVars, watcherVars, cacheVars, calcVars, orderTxInfoVars, raceVars, tokenVars, orderSignVars>>

\* the lookup or the remote read of a pre-check throws: the async function
\* rejects with the transport's error
CollateralReadFails ==
  /\ CollateralRunning
  /\ collateralPc \in 0..Len(ChecksOf(collateralCall.op))
  /\ collateralResult' = [status |-> "rejected", error |-> "TransportFailure"]
  /\ UNCHANGED <<collateralCall, collateralPc, collateralReads, collateralSent,
                 collateralCalls, enabledFor, poolTokenBalance>>
  /\ UNCHANGED <<resolverVars, tradeVars, cancelVars, watcherVars, cacheVars, calcVars, orderTxInfoVars, raceVars, tokenVars, orderSignVars>>

\* depositTokensForTradingTx(amount).send(txParams) /
\* withdrawTokensTx(amount).send(txParams): the pool moves the tokens
CollateralSend ==
  /\ CollateralRunning
  /\ collateralPc = Len(ChecksOf(collateralCall.op)) + 1
  /\ collateralSent' = Append(collateralSent, [op |-> collateralCall.op,
                                               amount |-> collateralCall.amount])
  /\ poolTokenBalance' = IF collateralCall.op = "deposit"
                           THEN poolTokenBalance + collateralCall.amount
                           ELSE poolTokenBalance - collateralCall.amount
  /\ collateralResult' = [status |-> "resolved", error |-> "none"]
  /\ UNCHANGED <<collateralCall, collateralPc, collateralReads, collateralCalls, enabledFor>>
  /\ UNCHANGED <<resolverVars, tradeVars, cancelVars, watcherVars, cacheVars, calcVars, orderTxInfoVars, raceVars, tokenVars, orderSignVars>>

\* send() throws: nothing reaches the pool
CollateralSendFails ==
  /\ CollateralRunning
  /\ collateralPc = Len(ChecksOf(collateralCall.op)) + 1
  /\ collateralResult' = [status |-> "rejected", error |-> "TransportFailure"]
  /\ UNCHANGED <<collateralCall, collateralPc, collateralReads, collateralSent,
                 collateralCalls, enabledFor, poolTokenBalance>>
  /\ UNCHANGED <<resolverVars, tradeVars, cancelVars, watcherVars, cacheVars, calcVars, orderTxInfoVars, raceVars, tokenVars, orderSignVars>>

CollateralNext ==
  \/ \E op \in CollateralOps, via \in Vias, amount \in Amounts :
       CollateralCall(op, via, amount)
  \/ CollateralLookup
  \/ CollateralCheck
  \/ CollateralReadFails
  \/ CollateralSend
  \/ CollateralSendFails

\* ---------------------------------------------------------------------------
\* ContractWrapper._getContractSetByMarketContractAddressAsync
\* ---------------------------------------------------------------------------
\* market contract addresses as callers pass them: one contract in two letter
\* cases and a second contract
MarketAddresses == {"0xAb", "0xab", "0xcd"}

\* String.prototype.toLowerCase on these addresses
toLowerCase(address) == IF address = "0xAb" THEN "0xab" ELSE address

\* marketContract.MARKET_COLLATERAL_POOL_ADDRESS of the contract at an address
PoolAddressOf(normalizedMarketAddress) ==
  IF normalizedMarketAddress = "0xab" THEN "0xPoolAb" ELSE "0xPoolCd"

\* the maps after the constructor: {}
NoContractSets == [a \in {} |-> 0]

\* the call: the map is read under the lower-cased address; a stored set is
\* returned, otherwise createNewMarketContractSetFromMarketContractAddressAsync
\* starts and suspends on the read of the pool address
getContractSetByMarketContractAddressAsync(marketContractAddress) ==
  /\ Len(lookups) < MaxLookups
  /\ LET normalizedMarketAddress == toLowerCase(marketContractAddress) IN
       IF normalizedMarketAddress \in DOMAIN contractSetByMarketContractAddress
         THEN lookups' = Append(lookups,
                [address |-> marketContractAddress, pc |-> "returned",
                 contractSetWrapper |->
                   contractSetByMarketContractAddress[normalizedMarketAddress],
                 hit |-> TRUE])
         ELSE lookups' = Append(lookups,
                [address |-> marketContractAddress, pc |-> "pool",
                 contractSetWrapper |-> 0, hit |-> FALSE])
  /\ UNCHANGED <<contractSetByMarketContractAddress,
                 contractSetByMarketCollateralPoolAddress, constructed, remoteReads>>
  /\ UNCHANGED <<resolverVars, tradeVars, cancelVars, watcherVars, collateralVars, calcVars, orderTxInfoVars, raceVars, tokenVars, orderSignVars>>

\* `await marketContract.MARKET_COLLATERAL_POOL_ADDRESS` returns; the read of
\* COLLATERAL_TOKEN_ADDRESS is next
PoolAddressReturns(i) ==
  /\ i \in 1..Len(lookups)
  /\ lookups[i].pc = "pool"
  /\ lookups' = [lookups EXCEPT ![i].pc = "token"]
  /\ remoteReads' = remoteReads + 1
  /\ UNCHANGED <<contractSetByMarketContractAddress,
                 contractSetByMarketCollateralPoolAddress, constructed>>
  /\ UNCHANGED <<resolverVars, tradeVars, cancelVars, watcherVars, collateralVars, calcVars, orderTxInfoVars, raceVars, tokenVars, orderSignVars>>

\* `await marketContract.COLLATERAL_TOKEN_ADDRESS` returns: a new ContractSet
\* is constructed, assigned under both keys and returned
TokenAddressReturns(i) ==
  /\ i \in 1..Len(lookups)
  /\ lookups[i].pc = "token"
  /\ LET normalizedMarketAddress == toLowerCase(lookups[i].address)
         contractSetWrapper == constructed + 1
     IN /\ constructed' = contractSetWrapper
        /\ contractSetByMarketContractAddress' =
             (normalizedMarketAddress :> contractSetWrapper)
               @@ contractSetByMarketContractAddress
        /\ contractSetByMarketCollateralPoolAddress' =
             (PoolAddressOf(normalizedMarketAddress) :> contractSetWrapper)
               @@ contractSetByMarketCollateralPoolAddress
        /\ lookups' = [lookups EXCEPT ![i].pc = "returned",
                                      ![i].contractSetWrapper = contractSetWrapper]
  /\ remoteReads' = remoteReads + 1
  /\ UNCHANGED <<resolverVars, tradeVars, cancelVars, watcherVars, collateralVars, calcVars, orderTxInfoVars, raceVars, tokenVars, orderSignVars>>

\* a read of the market contract throws: the call rejects, nothing is stored
CreateFails(i) ==
  /\ i \in 1..Len(lookups)
  /\ lookups[i].pc \in {"pool", "token"}
  /\ lookups' = [lookups EXCEPT ![i].pc = "rejected"]
  /\ UNCHANGED <<contractSetByMarketContractAddress,
                 contractSetByMarketCollateralPoolAddress, constructed, remoteReads>>
  /\ UNCHANGED <<resolverVars, tradeVars, cancelVars, watcherVars, collateralVars, calcVars, orderTxInfoVars, raceVars, tokenVars, orderSignVars>>

CacheNext ==
  \/ \E marketContractAddress \in MarketAddresses :
       getContractSetByMarketContractAddressAsync(marketContractAddress)
  \/ \E i \in 1..MaxLookups : PoolAddressReturns(i)
  \/ \E i \in 1..MaxLookups : TokenAddressReturns(i)
  \/ \E i \in 1..MaxLookups : CreateFails(i)

\* ---------------------------------------------------------------------------
\* ContractWrapper.getERC20TokenContractAsync
\* ---------------------------------------------------------------------------
\* token addresses as callers pass them: one token in two letter cases and a
\* second token
TokenAddresses == {"0xAb", "0xab", "0xcd"}

\* the map after the constructor: {}
NoTokenContracts == [a \in {} |-> 0]

\* new ERC20(this._web3, tokenAddress): the n-th instance built
ERC20(n, tokenAddress) == [id |-> n, address |-> tokenAddress]

\* mutant: the map is read and written under the address as given
getERC20TokenContractAsyncAsGiven(tokenAddress) ==
  /\ Len(tokenCalls) < MaxTokenCalls
  /\ LET normalizedTokenAddress == tokenAddress
     IN IF normalizedTokenAddress \in DOMAIN tokenContractsByAddress
          THEN /\ tokenCalls' = Append(tokenCalls,
                                  [tokenAddress |-> tokenAddress,
                                   tokenContract |-> tokenContractsByAddress[normalizedTokenAddress],
                                   received |-> FALSE])
               /\ UNCHANGED <<tokenContractsByAddress, tokensConstructed>>
          ELSE LET tokenContract == ERC20(tokensConstructed + 1, tokenAddress)
               IN /\ tokensConstructed' = tokensConstructed + 1
                  /\ tokenContractsByAddress' =
                       [a \in DOMAIN tokenContractsByAddress \cup {normalizedTokenAddress} |->
                          IF a = normalizedTokenAddress THEN tokenContract
                          ELSE tokenContractsByAddress[a]]
                  /\ tokenCalls' = Append(tokenCalls,
                                     [tokenAddress |-> tokenAddress,
                                      tokenContract |-> tokenContract,
                                      received |-> FALSE])
  /\ UNCHANGED <<resolverVars, tradeVars, cancelVars, watcherVars, collateralVars, cacheVars, calcVars, orderTxInfoVars, raceVars, orderSignVars>>

\* the call: the body has no await, so it runs to its return in one piece:
\* the map is read under the lower-cased address, a stored instance is
\* returned, otherwise an ERC20 is built for the address as given and stored
getERC20TokenContractAsync(tokenAddress) ==
  /\ Len(tokenCalls) < MaxTokenCalls
  /\ LET normalizedTokenAddress == toLowerCase(tokenAddress)
     IN IF normalizedTokenAddress \in DOMAIN tokenContractsByAddress
          THEN /\ tokenCalls' = Append(tokenCalls,
                                  [tokenAddress |-> tokenAddress,
                                   tokenContract |-> tokenContractsByAddress[normalizedTokenAddress],
                                   received |-> FALSE])
               /\ UNCHANGED <<tokenContractsByAddress, tokensConstructed>>
          ELSE LET tokenContract == ERC20(tokensConstructed + 1, tokenAddress)
               IN /\ tokensConstructed' = tokensConstructed + 1
                  /\ tokenContractsByAddress' =
                       [a \in DOMAIN tokenContractsByAddress \cup {normalizedTokenAddress} |->
                          IF a = normalizedTokenAddress THEN tokenContract
                          ELSE tokenContractsByAddress[a]]
                  /\ tokenCalls' = Append(tokenCalls,
                                     [tokenAddress |-> tokenAddress,
                                      tokenContract |-> tokenContract,
                                      received |-> FALSE])
  /\ UNCHANGED <<resolverVars, tradeVars, cancelVars, watcherVars, collateralVars, cacheVars, calcVars, orderTxInfoVars, raceVars, orderSignVars>>

\* the promise returned by call i resolves: its caller resumes with the instance
TokenContractReceived(i) ==
  /\ i \in 1..Len(tokenCalls)
  /\ ~tokenCalls[i].received
  /\ tokenCalls' = [tokenCalls EXCEPT ![i].received = TRUE]
  /\ UNCHANGED <<tokenContractsByAddress, tokensConstructed>>
  /\ UNCHANGED <<resolverVars, tradeVars, cancelVars, watcherVars, collateralVars, cacheVars, calcVars, orderTxInfoVars, raceVars, orderSignVars>>

TokenNext ==
  \/ \E tokenAddress \in TokenAddresses : getERC20TokenContractAsync(tokenAddress)
  \/ \E i \in 1..MaxTokenCalls : TokenContractReceived(i)

\* ---------------------------------------------------------------------------
\* lib/Order: createOrderHashAsync and createSignedOrderAsync
\* ---------------------------------------------------------------------------
Makers == {"maker", "maker2"}

\* const error = 'Error while creating order hash'
ErrorWhileCreatingOrderHash == <<"Error while creating order hash">>

\* orderLib.createOrderHash(contractAddress, orderAddresses, unsignedOrderValues,
\* orderQty): a digest of the fields handed over; remainingQty is not among them
\* (contract address, taker, fee recipient, fees and expiration are the same
\* for all orders here)
createOrderHash(order) == <<"hash", order.maker, order.orderQty, order.price, order.salt>>

NoSignature == [signer |-> "none", message |-> <<>>]

\* Utils.signMessage(web3, signerAddress, orderHash): the signature of the
\* message by the signer
signMessage(signerAddress, message) == [signer |-> signerAddress, message |-> message]

NoRemoteCalls == [createAndValidate |-> "none", createOrderHash |-> "none", signMessage |-> "none"]

SignedOrderOver == 4

\* createSignedOrderAsync is called with valid addresses: the order is built
\* and createOrderHashAsync runs up to `await OrderLib.createAndValidate(...)`
createSignedOrderAsync ==
  /\ signedOrderPc = 0
  /\ signedOrderPc' = 1
  /\ UNCHANGED <<orderArgs, remoteCalls, orderHashPromise, signedOrderPromise>>
  /\ UNCHANGED <<resolverVars, tradeVars, cancelVars, watcherVars, collateralVars, cacheVars, calcVars, orderTxInfoVars, raceVars, tokenVars>>

\* createAndValidate resolves: orderLib.createOrderHash(...) is called
OrderLibCreated ==
  /\ signedOrderPc = 1
  /\ signedOrderPc' = 2
  /\ remoteCalls' = [remoteCalls EXCEPT !.createAndValidate = "returned"]
  /\ UNCHANGED <<orderArgs, orderHashPromise, signedOrderPromise>>
  /\ UNCHANGED <<resolverVars, tradeVars, cancelVars, watcherVars, collateralVars, cacheVars, calcVars, orderTxInfoVars, raceVars, tokenVars>>

\* createAndValidate rejects: the await throws in createOrderHashAsync, and
\* the await of createOrderHashAsync throws in createSignedOrderAsync
OrderLibCreateFails ==
  /\ signedOrderPc = 1
  /\ signedOrderPc' = SignedOrderOver
  /\ remoteCalls' = [remoteCalls EXCEPT !.createAndValidate = "failed"]
  /\ orderHashPromise' = [status |-> "rejected", value |-> <<>>]
  /\ signedOrderPromise' = [status |-> "rejected", ecSignature |-> NoSignature]
  /\ UNCHANGED orderArgs
  /\ UNCHANGED <<resolverVars, tradeVars, cancelVars, watcherVars, collateralVars, cacheVars, calcVars, orderTxInfoVars, raceVars, tokenVars>>

\* createOrderHash resolves: .then(data => data); createSignedOrderAsync
\* resumes and calls signOrderHashAsync(provider, String(orderHash), maker)
OrderHashReturns ==
  /\ signedOrderPc = 2
  /\ signedOrderPc' = 3
  /\ remoteCalls' = [remoteCalls EXCEPT !.createOrderHash = "returned"]
  /\ orderHashPromise' = [status |-> "resolved", value |-> createOrderHash(orderArgs)]
  /\ UNCHANGED <<orderArgs, signedOrderPromise>>
  /\ UNCHANGED <<resolverVars, tradeVars, cancelVars, watcherVars, collateralVars, cacheVars, calcVars, orderTxInfoVars, raceVars, tokenVars>>

\* mutant: the catch handler lets the failure through
OrderHashFailsAndRejects ==
  /\ signedOrderPc = 2
  /\ signedOrderPc' = SignedOrderOver
  /\ remoteCalls' = [remoteCalls EXCEPT !.createOrderHash = "failed"]
  /\ orderHashPromise' = [status |-> "rejected", value |-> <<>>]
  /\ signedOrderPromise' = [status |-> "rejected", ecSignature |-> NoSignature]
  /\ UNCHANGED orderArgs
  /\ UNCHANGED <<resolverVars, tradeVars, cancelVars, watcherVars, collateralVars, cacheVars, calcVars, orderTxInfoVars, raceVars, tokenVars>>

\* createOrderHash rejects: .catch logs the error and returns the string, so
\* createOrderHashAsync resolves with it and createSignedOrderAsync goes on to
\* sign it
OrderHashFails ==
  /\ signedOrderPc = 2
  /\ signedOrderPc' = 3
  /\ remoteCalls' = [remoteCalls EXCEPT !.createOrderHash = "failed"]
  /\ orderHashPromise' = [status |-> "resolved", value |-> ErrorWhileCreatingOrderHash]
  /\ UNCHANGED <<orderArgs, signedOrderPromise>>
  /\ UNCHANGED <<resolverVars, tradeVars, cancelVars, watcherVars, collateralVars, cacheVars, calcVars, orderTxInfoVars, raceVars, tokenVars>>

\* signMessage resolves: the SignedOrder is the order's fields with the
\* signature of what createOrderHashAsync resolved with
SignReturns ==
  /\ signedOrderPc = 3
  /\ signedOrderPc' = SignedOrderOver
  /\ remoteCalls' = [remoteCalls EXCEPT !.signMessage = "returned"]
  /\ signedOrderPromise' =
       [status |-> "resolved",
        ecSignature |-> signMessage(orderArgs.maker, orderHashPromise.value)]
  /\ UNCHANGED <<orderArgs, orderHashPromise>>
  /\ UNCHANGED <<resolverVars, tradeVars, cancelVars, watcherVars, collateralVars, cacheVars, calcVars, orderTxInfoVars, raceVars, tokenVars>>

\* signMessage rejects: the await throws in createSignedOrderAsync
SignFails ==
  /\ signedOrderPc = 3
  /\ signedOrderPc' = SignedOrderOver
  /\ remoteCalls' = [remoteCalls EXCEPT !.signMessage = "failed"]
  /\ signedOrderPromise' = [status |-> "rejected", ecSignature |-> NoSignature]
  /\ UNCHANGED <<orderArgs, orderHashPromise>>
  /\ UNCHANGED <<resolverVars, tradeVars, cancelVars, watcherVars, collateralVars, cacheVars, calcVars, orderTxInfoVars, raceVars, tokenVars>>

OrderSignNext ==
  \/ createSignedOrderAsync
  \/ OrderLibCreated
  \/ OrderLibCreateFails
  \/ OrderHashReturns
  \/ OrderHashFails
  \/ SignReturns
  \/ SignFails

\* ---------------------------------------------------------------------------
\* ContractWrapper.calculateNeededCollateralAsync, one step per await
\* ---------------------------------------------------------------------------
\* signed quantities: + for buy, - for sell
SignedQtys == (0 - MaxQty)..MaxQty

\* the contract's parameters in the order the arguments are evaluated
CalcParameters == <<"PRICE_FLOOR", "PRICE_CAP", "QTY_MULTIPLIER">>

NothingCalculated == [q \in {} |-> 0]

\* positions of a call outside the awaits: none in progress, rejected
CalcIdle == -1

CalcRejected == -2

\* MathLib.calculateNeededCollateral on the ledger: the maximum loss per unit
\* times the size times the multiplier, in unsigned integers (the amounts
\* within the bounds are far below the 2^256 at which they would wrap)
mathLibCalculateNeededCollateral(priceFloor, priceCap, qtyMultiplier, qty, price) ==
  LET maxLoss == IF qty > 0 THEN price - priceFloor ELSE priceCap - price
  IN maxLoss * Abs(qty) * qtyMultiplier

\* market.calculateNeededCollateralAsync(marketContractAddress, qty, price)
CalcCall(qty) ==
  /\ calcPc \in {CalcIdle, CalcRejected}
  /\ qty \notin DOMAIN calculated
  /\ calcQty' = qty
  /\ calcPc' = 0
  /\ calcReads' = <<>>
  /\ UNCHANGED <<marketContract, calcPrice, calculated>>
  /\ UNCHANGED <<resolverVars, tradeVars, cancelVars, watcherVars, collateralVars, cacheVars, orderTxInfoVars, raceVars, tokenVars, orderSignVars>>

\* _getContractSetByMarketContractAddressAsync(marketContractAddress) returns
CalcLookup ==
  /\ calcPc = 0
  /\ calcPc' = 1
  /\ UNCHANGED <<marketContract, calcPrice, calcQty, calcReads, calculated>>
  /\ UNCHANGED <<resolverVars, tradeVars, cancelVars, watcherVars, collateralVars, cacheVars, orderTxInfoVars, raceVars, tokenVars, orderSignVars>>

\* `await contractSetWrapper.marketContract.<parameter>` returns
CalcRead ==
  /\ calcPc \in 1..(Len(CalcParameters) - 1)
  /\ calcReads' = Append(calcReads, marketContract[CalcParameters[calcPc]])
  /\ calcPc' = calcPc + 1
  /\ UNCHANGED <<marketContract, calcPrice, calcQty, calculated>>
  /\ UNCHANGED <<resolverVars, tradeVars, cancelVars, watcherVars, collateralVars, cacheVars, orderTxInfoVars, raceVars, tokenVars, orderSignVars>>

\* mutant: the bounds are handed over in the opposite order
CalcReturnSwapsBounds ==
  /\ calcPc = Len(CalcParameters)
  /\ LET reads == Append(calcReads, marketContract[CalcParameters[calcPc]]) IN
       calculated' =
         (calcQty :> calculateNeededCollateral(reads[2], reads[1], reads[3],
                                               calcQty, calcPrice)) @@ calculated
  /\ calcPc' = CalcIdle
  /\ calcReads' = <<>>
  /\ UNCHANGED <<marketContract, calcPrice, calcQty>>
  /\ UNCHANGED <<resolverVars, tradeVars, cancelVars, watcherVars, collateralVars, cacheVars, orderTxInfoVars, raceVars, tokenVars, orderSignVars>>

\* the last parameter is read and Utils.calculateNeededCollateral(PRICE_FLOOR,
\* PRICE_CAP, QTY_MULTIPLIER, qty, price) is returned
CalcReturn ==
  /\ calcPc = Len(CalcParameters)
  /\ LET reads == Append(calcReads, marketContract[CalcParameters[calcPc]]) IN
       calculated' =
         (calcQty :> calculateNeededCollateral(reads[1], reads[2], reads[3],
                                               calcQty, calcPrice)) @@ calculated
  /\ calcPc' = CalcIdle
  /\ calcReads' = <<>>
  /\ UNCHANGED <<marketContract, calcPrice, calcQty>>
  /\ UNCHANGED <<resolverVars, tradeVars, cancelVars, watcherVars, collateralVars, cacheVars, orderTxInfoVars, raceVars, tokenVars, orderSignVars>>

\* the lookup or a read throws: the call rejects without a result
CalcReadFails ==
  /\ calcPc \in 0..Len(CalcParameters)
  /\ calcPc' = CalcRejected
  /\ calcReads' = <<>>
  /\ UNCHANGED <<marketContract, calcPrice, calcQty, calculated>>
  /\ UNCHANGED <<resolverVars, tradeVars, cancelVars, watcherVars, collateralVars, cacheVars, orderTxInfoVars, raceVars, tokenVars, orderSignVars>>

CalcNext ==
  \/ \E qty \in SignedQtys : CalcCall(qty)
  \/ CalcLookup
  \/ CalcRead
  \/ CalcReturn
  \/ CalcReadFails

\* ---------------------------------------------------------------------------
\* OrderTransactionInfo: construction, block range and the accessors of one
\* object
\* ---------------------------------------------------------------------------
Undefined == -1     \* an optional number that is left out

Accessors == {"filledQtyAsync", "cancelledQtyAsync"}
Blocks == 1..MaxBlock

\* tradeOrderAsync/cancelOrderAsync of ContractWrapper (new OrderTransactionInfo
\* with four arguments), of MarketContractWrapper (create with txHash and
\* blockNumber), or a caller of create with a txHash only
ConstructionPaths == {"ContractWrapper", "MarketContractWrapper", "caller"}

\* the logs a transaction leaves in its block: at most one filled or cancelled
\* event and at most one error event
SuccessLogs == [type : {"filled", "cancelled"}, qty : Quantities, errorCode : {-1}]
ErrorLogs == [type : {"error"}, qty : {0}, errorCode : ErrorCodes]
TxLogSets ==
  {{}} \cup {{l} : l \in SuccessLogs \cup ErrorLogs}
       \cup {{l, e} : <<l, e>> \in SuccessLogs \X ErrorLogs}

\* new OrderTransactionInfo(marketContract, order, txHash): the constructor has
\* three parameters, a fourth argument is dropped; the block fields keep their
\* initializers
constructor(blockNumber) == [fromBlockNumber |-> 0, toBlockNumber |-> Undefined]

\* OrderTransactionInfo.create(marketContract, order, txParams)
create(params) ==
  [constructor(Undefined) EXCEPT
     !.fromBlockNumber = IF params.blockNumber # Undefined /\ params.blockNumber # 0
                           THEN params.blockNumber ELSE 0,
     !.toBlockNumber = params.blockNumber]

\* Number(this._web3.eth.getTransaction(txHash).blockNumber); the block number
\* of a pending transaction is null, and Number(null) is 0
ReadBlockNumber(tx) == IF tx.mined THEN tx.blockNumber ELSE 0

Constructed(path, tx) ==
  IF path = "ContractWrapper" THEN constructor(ReadBlockNumber(tx))
  ELSE IF path = "MarketContractWrapper" THEN create([blockNumber |-> ReadBlockNumber(tx)])
  ELSE create([blockNumber |-> Undefined])

NoFilter == [fromBlock |-> Undefined, toBlock |-> Undefined]

NotInvoked ==
  [invoked |-> FALSE, watchFilter |-> NoFilter, getState |-> "idle", primarySub |-> "none",
   errorSub |-> "none", handled |-> {}, stopping |-> {}, result |-> PendingPromise]

\* { fromBlock, toBlock } as the node applies it; toBlock left out is 'latest'
InRange(filter, block) ==
  /\ filter.fromBlock <= block
  /\ (filter.toBlock = Undefined \/ block <= filter.toBlock)

\* the logs of the transaction that a query or subscription with this filter
\* on this event type yields
LogsSeen(filter, type) ==
  {l \in chainTx.logs : chainTx.mined /\ l.type = type /\ InRange(filter, chainTx.blockNumber)}

PrimaryTypeOf(a) == IF a = "filledQtyAsync" THEN "filled" ELSE "cancelled"

\* the transaction is mined: its logs enter the chain
MineTransaction ==
  /\ ~chainTx.mined
  /\ chainTx' = [chainTx EXCEPT !.mined = TRUE]
  /\ UNCHANGED <<constructedBy, orderTxInfo, invocations>>
  /\ UNCHANGED <<resolverVars, tradeVars, cancelVars, watcherVars, collateralVars, cacheVars, calcVars, raceVars, tokenVars, orderSignVars>>

\* mutant: the accessor moves the object's range past the block it starts at
InvokeAccessorAdvancesRange(a) ==
  /\ ~invocations[a].invoked
  /\ invocations' =
       [invocations EXCEPT ![a] =
          [@ EXCEPT !.invoked = TRUE,
                    !.watchFilter = [fromBlock |-> orderTxInfo.fromBlockNumber,
                                     toBlock |-> orderTxInfo.toBlockNumber],
                    !.getState = "pending",
                    !.errorSub = "open"]]
  /\ orderTxInfo' = [orderTxInfo EXCEPT !.fromBlockNumber = @ + 1]
  /\ UNCHANGED <<chainTx, constructedBy>>
  /\ UNCHANGED <<resolverVars, tradeVars, cancelVars, watcherVars, collateralVars, cacheVars, calcVars, raceVars, tokenVars, orderSignVars>>

\* get filledQtyAsync / get cancelledQtyAsync up to the first await: both
\* executors build their filter from the object's fields, the error
\* subscription is opened, the historical query is sent
InvokeAccessor(a) ==
  /\ ~invocations[a].invoked
  /\ invocations' =
       [invocations EXCEPT ![a] =
          [@ EXCEPT !.invoked = TRUE,
                    !.watchFilter = [fromBlock |-> orderTxInfo.fromBlockNumber,
                                     toBlock |-> orderTxInfo.toBlockNumber],
                    !.getState = "pending",
                    !.errorSub = "open"]]
  /\ UNCHANGED <<chainTx, constructedBy, orderTxInfo>>
  /\ UNCHANGED <<resolverVars, tradeVars, cancelVars, watcherVars, collateralVars, cacheVars, calcVars, raceVars, tokenVars, orderSignVars>>

\* orderEvent.get(watchFilter) resolves: resolve with the transaction's event,
\* or open the live subscription with the same filter
AccessorGetReturns(a) ==
  /\ invocations[a].getState = "pending"
  /\ LET found == LogsSeen(invocations[a].watchFilter, PrimaryTypeOf(a))
     IN invocations' =
          [invocations EXCEPT ![a] =
             IF found # {}
               THEN [@ EXCEPT !.getState = "returned",
                              !.result = Settle(@, Resolved((CHOOSE l \in found : TRUE).qty,
                                                            "primary"))]
               ELSE [@ EXCEPT !.getState = "returned", !.primarySub = "open"]]
  /\ UNCHANGED <<chainTx, constructedBy, orderTxInfo>>
  /\ UNCHANGED <<resolverVars, tradeVars, cancelVars, watcherVars, collateralVars, cacheVars, calcVars, raceVars, tokenVars, orderSignVars>>

\* orderEvent.get(watchFilter) rejects
AccessorGetFails(a) ==
  /\ invocations[a].getState = "pending"
  /\ invocations' = [invocations EXCEPT ![a].getState = "failed"]
  /\ UNCHANGED <<chainTx, constructedBy, orderTxInfo>>
  /\ UNCHANGED <<resolverVars, tradeVars, cancelVars, watcherVars, collateralVars, cacheVars, calcVars, raceVars, tokenVars, orderSignVars>>

\* the callback of orderEvent.watch receives the transaction's event
AccessorWatchCallback(a, l) ==
  /\ invocations[a].primarySub = "open"
  /\ l \in LogsSeen(invocations[a].watchFilter, PrimaryTypeOf(a)) \ invocations[a].handled
  /\ invocations' = [invocations EXCEPT ![a].handled = @ \cup {l},
                                        ![a].stopping = @ \cup {l}]
  /\ UNCHANGED <<chainTx, constructedBy, orderTxInfo>>
  /\ UNCHANGED <<resolverVars, tradeVars, cancelVars, watcherVars, collateralVars, cacheVars, calcVars, raceVars, tokenVars, orderSignVars>>

\* the callback of errorEvent.watch receives the transaction's error event
AccessorErrorCallback(a, l) ==
  /\ invocations[a].errorSub = "open"
  /\ l \in LogsSeen(invocations[a].watchFilter, "error") \ invocations[a].handled
  /\ invocations' = [invocations EXCEPT ![a].handled = @ \cup {l},
                                        ![a].stopping = @ \cup {l}]
  /\ UNCHANGED <<chainTx, constructedBy, orderTxInfo>>
  /\ UNCHANGED <<resolverVars, tradeVars, cancelVars, watcherVars, collateralVars, cacheVars, calcVars, raceVars, tokenVars, orderSignVars>>

\* the stop call made for log l resolves: the subscription is closed, the
\* branch settles and with it, unless settled before, the accessor (the catch
\* block's stopEventWatcher() is the initial no-op)
AccessorStopSucceeds(a, l) ==
  /\ l \in invocations[a].stopping
  /\ invocations' =
       [invocations EXCEPT
          ![a].stopping = @ \ {l},
          ![a].primarySub = IF l.type = "error" THEN @ ELSE "stopped",
          ![a].errorSub = IF l.type = "error" THEN "stopped" ELSE @,
          ![a].result = Settle(@, IF l.type = "error"
                                    THEN Rejected(ErrorKindOf(l.errorCode), "error", l.errorCode)
                                    ELSE Resolved(l.qty, "primary"))]
  /\ UNCHANGED <<chainTx, constructedBy, orderTxInfo>>
  /\ UNCHANGED <<resolverVars, tradeVars, cancelVars, watcherVars, collateralVars, cacheVars, calcVars, raceVars, tokenVars, orderSignVars>>

\* the stop call made for log l rejects: .catch(reject)
AccessorStopFails(a, l) ==
  /\ l \in invocations[a].stopping
  /\ invocations' =
       [invocations EXCEPT
          ![a].stopping = @ \ {l},
          ![a].result = Settle(@, Rejected("TransportFailure",
                                           IF l.type = "error" THEN "error" ELSE "primary",
                                           l.errorCode))]
  /\ UNCHANGED <<chainTx, constructedBy, orderTxInfo>>
  /\ UNCHANGED <<resolverVars, tradeVars, cancelVars, watcherVars, collateralVars, cacheVars, calcVars, raceVars, tokenVars, orderSignVars>>

OrderTxInfoNext ==
  \/ MineTransaction
  \/ \E a \in Accessors : InvokeAccessor(a)
  \/ \E a \in Accessors : AccessorGetReturns(a)
  \/ \E a \in Accessors : AccessorGetFails(a)
  \/ \E a \in Accessors : \E l \in chainTx.logs : AccessorWatchCallback(a, l)
  \/ \E a \in Accessors : \E l \in chainTx.logs : AccessorErrorCallback(a, l)
  \/ \E a \in Accessors : \E l \in chainTx.logs : AccessorStopSucceeds(a, l)
  \/ \E a \in Accessors : \E l \in chainTx.logs : AccessorStopFails(a, l)

\* ---------------------------------------------------------------------------
\* ExpirationWatcher
\* ---------------------------------------------------------------------------
OrderHashes == {"h1", "h2", "h3"}
Instants == 0..MaxClock
NoTimer == -1

Max(a, b) == IF a >= b THEN a ELSE b

\* mutant: an entry is taken as due one tick early
IsExpiredEarly(entry, now) == entry.expirationInstantMs <= now + 1

\* an entry is due once the clock has reached its expiration instant
IsExpired(entry, now) == entry.expirationInstantMs <= now

\* mutant: the entry already held for the identifier is kept
WithoutNothing(es, identifier) == es

\* the entries without the one held for `identifier`
Without(es, identifier) == SelectSeq(es, LAMBDA e : e.identifier # identifier)

\* mutant: the new entry is put at the end whatever its instant
InsertAtEnd(es, entry) == Append(es, entry)

\* ordered insertion: after every entry that expires no later than the new one
InsertOrdered(es, entry) ==
  LET k == Cardinality({i \in 1..Len(es) :
                          es[i].expirationInstantMs <= entry.expirationInstantMs})
  IN SubSeq(es, 1, k) \o <<entry>> \o SubSeq(es, k + 1, Len(es))

\* mutant: the timer is armed only for an entry that is already due
ArmOnlyWhenDue(es, now) ==
  IF es = <<>> \/ es[1].expirationInstantMs > now THEN NoTimer ELSE now

\* the timer is armed for max(0, earliest.expirationInstantMs - now)
ArmFor(es, now) == IF es = <<>> THEN NoTimer ELSE Max(now, es[1].expirationInstantMs)

\* mutant: a new timer is set while the previous one is left running
RearmedWithoutCancel(live, es) == IF es = <<>> THEN live ELSE live + 1

\* re-arming: the previous timer, if any, is cancelled first, then one timer
\* is set if entries remain; the number of live timers afterwards
Rearmed(live, es) == IF es = <<>> THEN 0 ELSE 1

\* number of entries popped from the front on a timer fire
RECURSIVE DueCount(_, _)
DueCount(es, now) ==
  IF es = <<>> \/ ~IsExpired(es[1], now) THEN 0 ELSE 1 + DueCount(Tail(es), now)

\* mutant: every addOrder on a subscribed scheduler re-arms the timer
addOrderAlwaysRearms(identifier, expirationInstantMs) ==
  /\ adds < MaxAdds
  /\ adds' = adds + 1
  /\ LET old == Without(entries, identifier)
         entry == [identifier |-> identifier, expirationInstantMs |-> expirationInstantMs,
                   seq |-> adds + 1, sawEmitted |-> Len(emitted)]
     IN /\ entries' = InsertOrdered(old, entry)
        /\ IF subscribed = "yes"
             THEN /\ timer' = ArmFor(entries', clock)
                  /\ liveTimers' = Rearmed(liveTimers, entries')
             ELSE UNCHANGED <<timer, liveTimers>>
  /\ UNCHANGED <<clock, subscribed, emitted>>
  /\ UNCHANGED <<resolverVars, tradeVars, cancelVars, collateralVars, cacheVars, calcVars, orderTxInfoVars, raceVars, tokenVars, orderSignVars>>

\* addOrder(identifier, expirationInstantMs): insert or update the entry; an
\* entry earlier than the current earliest re-arms the timer
addOrder(identifier, expirationInstantMs) ==
  /\ adds < MaxAdds
  /\ adds' = adds + 1
  /\ LET old == Without(entries, identifier)
         entry == [identifier |-> identifier, expirationInstantMs |-> expirationInstantMs,
                   seq |-> adds + 1, sawEmitted |-> Len(emitted)]
     IN /\ entries' = InsertOrdered(old, entry)
        /\ IF subscribed = "yes"
              /\ (timer = NoTimer \/ entries = <<>>
                    \/ expirationInstantMs < entries[1].expirationInstantMs)
             THEN /\ timer' = ArmFor(entries', clock)
                  /\ liveTimers' = Rearmed(liveTimers, entries')
             ELSE UNCHANGED <<timer, liveTimers>>
  /\ UNCHANGED <<clock, subscribed, emitted>>
  /\ UNCHANGED <<resolverVars, tradeVars, cancelVars, collateralVars, cacheVars, calcVars, orderTxInfoVars, raceVars, tokenVars, orderSignVars>>

\* subscribe(observer): registers the callback and arms the timer
subscribe ==
  /\ subscribed = "never"
  /\ subscribed' = "yes"
  /\ timer' = ArmFor(entries, clock)
  /\ liveTimers' = Rearmed(liveTimers, entries)
  /\ UNCHANGED <<entries, clock, emitted, adds>>
  /\ UNCHANGED <<resolverVars, tradeVars, cancelVars, collateralVars, cacheVars, calcVars, orderTxInfoVars, raceVars, tokenVars, orderSignVars>>

\* mutant: unsubscribe() drops the entries and the observer but leaves the timer
unsubscribeKeepsTimer ==
  /\ subscribed' = "unsubscribed"
  /\ entries' = <<>>
  /\ UNCHANGED <<timer, clock, emitted, adds, liveTimers>>
  /\ UNCHANGED <<resolverVars, tradeVars, cancelVars, collateralVars, cacheVars, calcVars, orderTxInfoVars, raceVars, tokenVars, orderSignVars>>

\* unsubscribe(): cancels the pending timer and stops notification for good
unsubscribe ==
  /\ subscribed' = "unsubscribed"
  /\ timer' = NoTimer
  /\ liveTimers' = 0
  /\ entries' = <<>>
  /\ UNCHANGED <<clock, emitted, adds>>
  /\ UNCHANGED <<resolverVars, tradeVars, cancelVars, collateralVars, cacheVars, calcVars, orderTxInfoVars, raceVars, tokenVars, orderSignVars>>

\* mutant: a firing handles the earliest entry only
TimerFireEarliestOnly ==
  /\ timer # NoTimer
  /\ clock >= timer
  /\ LET n == IF DueCount(entries, clock) = 0 THEN 0 ELSE 1
     IN /\ emitted' = emitted \o [i \in 1..n |->
                           [identifier |-> entries[i].identifier,
                            expirationInstantMs |-> entries[i].expirationInstantMs,
                            seq |-> entries[i].seq,
                            sawEmitted |-> entries[i].sawEmitted,
                            at |-> clock]]
        /\ entries' = SubSeq(entries, n + 1, Len(entries))
        /\ timer' = ArmFor(entries', clock)
        /\ liveTimers' = Rearmed(liveTimers - 1, entries')
  /\ UNCHANGED <<clock, subscribed, adds>>
  /\ UNCHANGED <<resolverVars, tradeVars, cancelVars, collateralVars, cacheVars, calcVars, orderTxInfoVars, raceVars, tokenVars, orderSignVars>>

\* the timer fires: pop and emit every due entry in order, re-arm if any remain
TimerFire ==
  /\ timer # NoTimer
  /\ clock >= timer
  /\ LET n == DueCount(entries, clock)
     IN /\ emitted' = emitted \o [i \in 1..n |->
                           [identifier |-> entries[i].identifier,
                            expirationInstantMs |-> entries[i].expirationInstantMs,
                            seq |-> entries[i].seq,
                            sawEmitted |-> entries[i].sawEmitted,
                            at |-> clock]]
        /\ entries' = SubSeq(entries, n + 1, Len(entries))
        /\ timer' = ArmFor(entries', clock)
        /\ liveTimers' = Rearmed(liveTimers - 1, entries')
  /\ UNCHANGED <<clock, subscribed, adds>>
  /\ UNCHANGED <<resolverVars, tradeVars, cancelVars, collateralVars, cacheVars, calcVars, orderTxInfoVars, raceVars, tokenVars, orderSignVars>>

\* time passes (a due timer may fire late)
Tick ==
  /\ clock < MaxClock
  /\ clock' = clock + 1
  /\ UNCHANGED <<entries, timer, subscribed, emitted, adds, liveTimers>>
  /\ UNCHANGED <<resolverVars, tradeVars, cancelVars, collateralVars, cacheVars, calcVars, orderTxInfoVars, raceVars, tokenVars, orderSignVars>>

WatcherNext ==
  \/ \E h \in OrderHashes, t \in Instants : addOrder(h, t)
  \/ subscribe
  \/ unsubscribe
  \/ TimerFire
  \/ Tick

\* ---------------------------------------------------------------------------
\* Specifications
\* ---------------------------------------------------------------------------
\* state after construction of an OrderTransactionInfo whose historical logs
\* are any bounded sequence; no trade call and no watcher are running
ResolverInit ==
  /\ accessor = "none"
  /\ eventLogs \in LogSeqs
  /\ getState = "idle"
  /\ stopEventWatcher = "noop"
  /\ stopWatcher = "noop"
  /\ primarySub = "none"
  /\ errorSub = "none"
  /\ pendingStops = {}
  /\ primaryPromise = PendingPromise
  /\ errorPromise = PendingPromise
  /\ result = PendingPromise
  /\ delivered = 0
  /\ firstMatch = NoMatch
  /\ signedOrder = [taker |-> NULL_ADDRESS, expirationTimestamp |-> Now, remainingQty |-> 1,
                    orderQty |-> 1, makerFee |-> 0, takerFee |-> 0, price |-> 1]
  /\ fillQty = 1
  /\ txParams = [from |-> "undefined"]
  /\ ledger = NothingRead
  /\ tradePc = 1
  /\ evaluated = <<>>
  /\ tradeResult = TradePending
  /\ submitted = 0
  /\ resolvers = 0
  /\ cancelQty = 0
  /\ cancelPc = "start"
  /\ cancelSent = <<>>
  /\ cancelResult = CancelPending
  /\ entries = <<>>
  /\ timer = NoTimer
  /\ clock = 0
  /\ subscribed = "never"
  /\ emitted = <<>>
  /\ adds = 0
  /\ liveTimers = 0
  /\ collateralCall = NoCall
  /\ collateralPc = 0
  /\ collateralReads = <<>>
  /\ collateralResult = CollateralPending
  /\ collateralSent = <<>>
  /\ collateralCalls = 0
  /\ enabledFor = [a \in EnabledArguments |-> TRUE]
  /\ poolTokenBalance = 0
  /\ contractSetByMarketContractAddress = NoContractSets
  /\ contractSetByMarketCollateralPoolAddress = NoContractSets
  /\ lookups = <<>>
  /\ constructed = 0
  /\ remoteReads = 0
  /\ marketContract = [PRICE_FLOOR |-> PRICE_FLOOR, PRICE_CAP |-> PRICE_CAP,
                       QTY_MULTIPLIER |-> QTY_MULTIPLIER]
  /\ calcPrice = PRICE_FLOOR
  /\ calcQty = 0
  /\ calcPc = CalcIdle
  /\ calcReads = <<>>
  /\ calculated = NothingCalculated
  /\ chainTx = [blockNumber |-> 1, logs |-> {}, mined |-> FALSE]
  /\ constructedBy = "caller"
  /\ orderTxInfo = Constructed(constructedBy, chainTx)
  /\ invocations = [a \in Accessors |-> NotInvoked]
  /\ remoteChanges = NothingRead
  /\ tradeClock = Now
  /\ tokenContractsByAddress = NoTokenContracts
  /\ tokenCalls = <<>>
  /\ tokensConstructed = 0
  /\ orderArgs = [maker |-> "maker", orderQty |-> 1, price |-> 1, remainingQty |-> 1, salt |-> 1]
  /\ signedOrderPc = 0
  /\ remoteCalls = NoRemoteCalls
  /\ orderHashPromise = [status |-> "pending", value |-> <<>>]
  /\ signedOrderPromise = [status |-> "pending", ecSignature |-> NoSignature]

\* state at the call of tradeOrderAsync, for every order, fill quantity and
\* sender within the bounds
TradeInit ==
  /\ accessor = "none"
  /\ eventLogs = <<>>
  /\ getState = "idle"
  /\ stopEventWatcher = "noop"
  /\ stopWatcher = "noop"
  /\ primarySub = "none"
  /\ errorSub = "none"
  /\ pendingStops = {}
  /\ primaryPromise = PendingPromise
  /\ errorPromise = PendingPromise
  /\ result = PendingPromise
  /\ delivered = 0
  /\ firstMatch = NoMatch
  /\ signedOrder \in [taker : Takers, expirationTimestamp : Expirations,
                       remainingQty : 0..1, orderQty : OrderQtys,
                       makerFee : Amounts, takerFee : Amounts,
                       price : PRICE_FLOOR..PRICE_CAP]
  /\ fillQty \in FillQtys
  /\ txParams \in [from : Senders]
  /\ ledger = NothingRead
  /\ tradePc = 1
  /\ evaluated = <<>>
  /\ tradeResult = TradePending
  /\ submitted = 0
  /\ resolvers = 0
  /\ cancelQty = 0
  /\ cancelPc = "start"
  /\ cancelSent = <<>>
  /\ cancelResult = CancelPending
  /\ entries = <<>>
  /\ timer = NoTimer
  /\ clock = 0
  /\ subscribed = "never"
  /\ emitted = <<>>
  /\ adds = 0
  /\ liveTimers = 0
  /\ collateralCall = NoCall
  /\ collateralPc = 0
  /\ collateralReads = <<>>
  /\ collateralResult = CollateralPending
  /\ collateralSent = <<>>
  /\ collateralCalls = 0
  /\ enabledFor = [a \in EnabledArguments |-> TRUE]
  /\ poolTokenBalance = 0
  /\ contractSetByMarketContractAddress = NoContractSets
  /\ contractSetByMarketCollateralPoolAddress = NoContractSets
  /\ lookups = <<>>
  /\ constructed = 0
  /\ remoteReads = 0
  /\ marketContract = [PRICE_FLOOR |-> PRICE_FLOOR, PRICE_CAP |-> PRICE_CAP,
                       QTY_MULTIPLIER |-> QTY_MULTIPLIER]
  /\ calcPrice = PRICE_FLOOR
  /\ calcQty = 0
  /\ calcPc = CalcIdle
  /\ calcReads = <<>>
  /\ calculated = NothingCalculated
  /\ chainTx = [blockNumber |-> 1, logs |-> {}, mined |-> FALSE]
  /\ constructedBy = "caller"
  /\ orderTxInfo = Constructed(constructedBy, chainTx)
  /\ invocations = [a \in Accessors |-> NotInvoked]
  /\ remoteChanges = NothingRead
  /\ tradeClock = Now
  /\ tokenContractsByAddress = NoTokenContracts
  /\ tokenCalls = <<>>
  /\ tokensConstructed = 0
  /\ orderArgs = [maker |-> "maker", orderQty |-> 1, price |-> 1, remainingQty |-> 1, salt |-> 1]
  /\ signedOrderPc = 0
  /\ remoteCalls = NoRemoteCalls
  /\ orderHashPromise = [status |-> "pending", value |-> <<>>]
  /\ signedOrderPromise = [status |-> "pending", ecSignature |-> NoSignature]

\* a trade call about to start on an open order that expires this second,
\* for every pair of fees
TradeRaceInit ==
  /\ accessor = "none"
  /\ eventLogs = <<>>
  /\ getState = "idle"
  /\ stopEventWatcher = "noop"
  /\ stopWatcher = "noop"
  /\ primarySub = "none"
  /\ errorSub = "none"
  /\ pendingStops = {}
  /\ primaryPromise = PendingPromise
  /\ errorPromise = PendingPromise
  /\ result = PendingPromise
  /\ delivered = 0
  /\ firstMatch = NoMatch
  /\ signedOrder \in [taker : {NULL_ADDRESS}, expirationTimestamp : {Now},
                       remainingQty : {1}, orderQty : {1},
                       makerFee : Amounts, takerFee : Amounts,
                       price : {1}]
  /\ fillQty = 1
  /\ txParams = [from |-> "undefined"]
  /\ ledger = NothingRead
  /\ tradePc = 1
  /\ evaluated = <<>>
  /\ tradeResult = TradePending
  /\ submitted = 0
  /\ resolvers = 0
  /\ cancelQty = 0
  /\ cancelPc = "start"
  /\ cancelSent = <<>>
  /\ cancelResult = CancelPending
  /\ entries = <<>>
  /\ timer = NoTimer
  /\ clock = 0
  /\ subscribed = "never"
  /\ emitted = <<>>
  /\ adds = 0
  /\ liveTimers = 0
  /\ collateralCall = NoCall
  /\ collateralPc = 0
  /\ collateralReads = <<>>
  /\ collateralResult = CollateralPending
  /\ collateralSent = <<>>
  /\ collateralCalls = 0
  /\ enabledFor = [a \in EnabledArguments |-> TRUE]
  /\ poolTokenBalance = 0
  /\ contractSetByMarketContractAddress = NoContractSets
  /\ contractSetByMarketCollateralPoolAddress = NoContractSets
  /\ lookups = <<>>
  /\ constructed = 0
  /\ remoteReads = 0
  /\ marketContract = [PRICE_FLOOR |-> PRICE_FLOOR, PRICE_CAP |-> PRICE_CAP,
                       QTY_MULTIPLIER |-> QTY_MULTIPLIER]
  /\ calcPrice = PRICE_FLOOR
  /\ calcQty = 0
  /\ calcPc = CalcIdle
  /\ calcReads = <<>>
  /\ calculated = NothingCalculated
  /\ chainTx = [blockNumber |-> 1, logs |-> {}, mined |-> FALSE]
  /\ constructedBy = "caller"
  /\ orderTxInfo = Constructed(constructedBy, chainTx)
  /\ invocations = [a \in Accessors |-> NotInvoked]
  /\ remoteChanges = NothingRead
  /\ tradeClock = Now
  /\ tokenContractsByAddress = NoTokenContracts
  /\ tokenCalls = <<>>
  /\ tokensConstructed = 0
  /\ orderArgs = [maker |-> "maker", orderQty |-> 1, price |-> 1, remainingQty |-> 1, salt |-> 1]
  /\ signedOrderPc = 0
  /\ remoteCalls = NoRemoteCalls
  /\ orderHashPromise = [status |-> "pending", value |-> <<>>]
  /\ signedOrderPromise = [status |-> "pending", ecSignature |-> NoSignature]

\* state at the call of cancelOrderAsync, for every order, cancel quantity
\* and sender within the bounds
CancelInit ==
  /\ accessor = "none"
  /\ eventLogs = <<>>
  /\ getState = "idle"
  /\ stopEventWatcher = "noop"
  /\ stopWatcher = "noop"
  /\ primarySub = "none"
  /\ errorSub = "none"
  /\ pendingStops = {}
  /\ primaryPromise = PendingPromise
  /\ errorPromise = PendingPromise
  /\ result = PendingPromise
  /\ delivered = 0
  /\ firstMatch = NoMatch
  /\ signedOrder \in [taker : Takers, expirationTimestamp : Expirations,
                       remainingQty : 0..1, orderQty : OrderQtys,
                       makerFee : Amounts, takerFee : Amounts,
                       price : PRICE_FLOOR..PRICE_CAP]
  /\ fillQty = 1
  /\ txParams \in [from : Senders]
  /\ ledger = NothingRead
  /\ tradePc = 1
  /\ evaluated = <<>>
  /\ tradeResult = TradePending
  /\ submitted = 0
  /\ resolvers = 0
  /\ cancelQty \in FillQtys
  /\ cancelPc = "start"
  /\ cancelSent = <<>>
  /\ cancelResult = CancelPending
  /\ entries = <<>>
  /\ timer = NoTimer
  /\ clock = 0
  /\ subscribed = "never"
  /\ emitted = <<>>
  /\ adds = 0
  /\ liveTimers = 0
  /\ collateralCall = NoCall
  /\ collateralPc = 0
  /\ collateralReads = <<>>
  /\ collateralResult = CollateralPending
  /\ collateralSent = <<>>
  /\ collateralCalls = 0
  /\ enabledFor = [a \in EnabledArguments |-> TRUE]
  /\ poolTokenBalance = 0
  /\ contractSetByMarketContractAddress = NoContractSets
  /\ contractSetByMarketCollateralPoolAddress = NoContractSets
  /\ lookups = <<>>
  /\ constructed = 0
  /\ remoteReads = 0
  /\ marketContract = [PRICE_FLOOR |-> PRICE_FLOOR, PRICE_CAP |-> PRICE_CAP,
                       QTY_MULTIPLIER |-> QTY_MULTIPLIER]
  /\ calcPrice = PRICE_FLOOR
  /\ calcQty = 0
  /\ calcPc = CalcIdle
  /\ calcReads = <<>>
  /\ calculated = NothingCalculated
  /\ chainTx = [blockNumber |-> 1, logs |-> {}, mined |-> FALSE]
  /\ constructedBy = "caller"
  /\ orderTxInfo = Constructed(constructedBy, chainTx)
  /\ invocations = [a \in Accessors |-> NotInvoked]
  /\ remoteChanges = NothingRead
  /\ tradeClock = Now
  /\ tokenContractsByAddress = NoTokenContracts
  /\ tokenCalls = <<>>
  /\ tokensConstructed = 0
  /\ orderArgs = [maker |-> "maker", orderQty |-> 1, price |-> 1, remainingQty |-> 1, salt |-> 1]
  /\ signedOrderPc = 0
  /\ remoteCalls = NoRemoteCalls
  /\ orderHashPromise = [status |-> "pending", value |-> <<>>]
  /\ signedOrderPromise = [status |-> "pending", ecSignature |-> NoSignature]

\* state after `new ExpirationWatcher()`
WatcherInit ==
  /\ accessor = "none"
  /\ eventLogs = <<>>
  /\ getState = "idle"
  /\ stopEventWatcher = "noop"
  /\ stopWatcher = "noop"
  /\ primarySub = "none"
  /\ errorSub = "none"
  /\ pendingStops = {}
  /\ primaryPromise = PendingPromise
  /\ errorPromise = PendingPromise
  /\ result = PendingPromise
  /\ delivered = 0
  /\ firstMatch = NoMatch
  /\ signedOrder = [taker |-> NULL_ADDRESS, expirationTimestamp |-> Now, remainingQty |-> 1,
                    orderQty |-> 1, makerFee |-> 0, takerFee |-> 0, price |-> 1]
  /\ fillQty = 1
  /\ txParams = [from |-> "undefined"]
  /\ ledger = NothingRead
  /\ tradePc = 1
  /\ evaluated = <<>>
  /\ tradeResult = TradePending
  /\ submitted = 0
  /\ resolvers = 0
  /\ cancelQty = 0
  /\ cancelPc = "start"
  /\ cancelSent = <<>>
  /\ cancelResult = CancelPending
  /\ entries = <<>>
  /\ timer = NoTimer
  /\ clock = 0
  /\ subscribed = "never"
  /\ emitted = <<>>
  /\ adds = 0
  /\ liveTimers = 0
  /\ collateralCall = NoCall
  /\ collateralPc = 0
  /\ collateralReads = <<>>
  /\ collateralResult = CollateralPending
  /\ collateralSent = <<>>
  /\ collateralCalls = 0
  /\ enabledFor = [a \in EnabledArguments |-> TRUE]
  /\ poolTokenBalance = 0
  /\ contractSetByMarketContractAddress = NoContractSets
  /\ contractSetByMarketCollateralPoolAddress = NoContractSets
  /\ lookups = <<>>
  /\ constructed = 0
  /\ remoteReads = 0
  /\ marketContract = [PRICE_FLOOR |-> PRICE_FLOOR, PRICE_CAP |-> PRICE_CAP,
                       QTY_MULTIPLIER |-> QTY_MULTIPLIER]
  /\ calcPrice = PRICE_FLOOR
  /\ calcQty = 0
  /\ calcPc = CalcIdle
  /\ calcReads = <<>>
  /\ calculated = NothingCalculated
  /\ chainTx = [blockNumber |-> 1, logs |-> {}, mined |-> FALSE]
  /\ constructedBy = "caller"
  /\ orderTxInfo = Constructed(constructedBy, chainTx)
  /\ invocations = [a \in Accessors |-> NotInvoked]
  /\ remoteChanges = NothingRead
  /\ tradeClock = Now
  /\ tokenContractsByAddress = NoTokenContracts
  /\ tokenCalls = <<>>
  /\ tokensConstructed = 0
  /\ orderArgs = [maker |-> "maker", orderQty |-> 1, price |-> 1, remainingQty |-> 1, salt |-> 1]
  /\ signedOrderPc = 0
  /\ remoteCalls = NoRemoteCalls
  /\ orderHashPromise = [status |-> "pending", value |-> <<>>]
  /\ signedOrderPromise = [status |-> "pending", ecSignature |-> NoSignature]

\* createSignedOrderAsync not yet called, for every order
OrderSignInit ==
  /\ accessor = "none"
  /\ eventLogs = <<>>
  /\ getState = "idle"
  /\ stopEventWatcher = "noop"
  /\ stopWatcher = "noop"
  /\ primarySub = "none"
  /\ errorSub = "none"
  /\ pendingStops = {}
  /\ primaryPromise = PendingPromise
  /\ errorPromise = PendingPromise
  /\ result = PendingPromise
  /\ delivered = 0
  /\ firstMatch = NoMatch
  /\ signedOrder = [taker |-> NULL_ADDRESS, expirationTimestamp |-> Now, remainingQty |-> 1,
                    orderQty |-> 1, makerFee |-> 0, takerFee |-> 0, price |-> 1]
  /\ fillQty = 1
  /\ txParams = [from |-> "undefined"]
  /\ ledger = NothingRead
  /\ tradePc = 1
  /\ evaluated = <<>>
  /\ tradeResult = TradePending
  /\ submitted = 0
  /\ resolvers = 0
  /\ cancelQty = 0
  /\ cancelPc = "start"
  /\ cancelSent = <<>>
  /\ cancelResult = CancelPending
  /\ entries = <<>>
  /\ timer = NoTimer
  /\ clock = 0
  /\ subscribed = "never"
  /\ emitted = <<>>
  /\ adds = 0
  /\ liveTimers = 0
  /\ collateralCall = NoCall
  /\ collateralPc = 0
  /\ collateralReads = <<>>
  /\ collateralResult = CollateralPending
  /\ collateralSent = <<>>
  /\ collateralCalls = 0
  /\ enabledFor = [a \in EnabledArguments |-> TRUE]
  /\ poolTokenBalance = 0
  /\ contractSetByMarketContractAddress = NoContractSets
  /\ contractSetByMarketCollateralPoolAddress = NoContractSets
  /\ lookups = <<>>
  /\ constructed = 0
  /\ remoteReads = 0
  /\ marketContract = [PRICE_FLOOR |-> PRICE_FLOOR, PRICE_CAP |-> PRICE_CAP,
                       QTY_MULTIPLIER |-> QTY_MULTIPLIER]
  /\ calcPrice = PRICE_FLOOR
  /\ calcQty = 0
  /\ calcPc = CalcIdle
  /\ calcReads = <<>>
  /\ calculated = NothingCalculated
  /\ chainTx = [blockNumber |-> 1, logs |-> {}, mined |-> FALSE]
  /\ constructedBy = "caller"
  /\ orderTxInfo = Constructed(constructedBy, chainTx)
  /\ invocations = [a \in Accessors |-> NotInvoked]
  /\ remoteChanges = NothingRead
  /\ tradeClock = Now
  /\ tokenContractsByAddress = NoTokenContracts
  /\ tokenCalls = <<>>
  /\ tokensConstructed = 0
  /\ orderArgs \in [maker : Makers, orderQty : OrderQtys, price : PRICE_FLOOR..PRICE_CAP,
                     remainingQty : 0..1, salt : 1..MaxSalt]
  /\ signedOrderPc = 0
  /\ remoteCalls = NoRemoteCalls
  /\ orderHashPromise = [status |-> "pending", value |-> <<>>]
  /\ signedOrderPromise = [status |-> "pending", ecSignature |-> NoSignature]

\* no calculation made yet, for every contract with priceFloor <= priceCap and
\* qtyMultiplier > 0 and every price between the bounds
CalcInit ==
  /\ accessor = "none"
  /\ eventLogs = <<>>
  /\ getState = "idle"
  /\ stopEventWatcher = "noop"
  /\ stopWatcher = "noop"
  /\ primarySub = "none"
  /\ errorSub = "none"
  /\ pendingStops = {}
  /\ primaryPromise = PendingPromise
  /\ errorPromise = PendingPromise
  /\ result = PendingPromise
  /\ delivered = 0
  /\ firstMatch = NoMatch
  /\ signedOrder = [taker |-> NULL_ADDRESS, expirationTimestamp |-> Now, remainingQty |-> 1,
                    orderQty |-> 1, makerFee |-> 0, takerFee |-> 0, price |-> 1]
  /\ fillQty = 1
  /\ txParams = [from |-> "undefined"]
  /\ ledger = NothingRead
  /\ tradePc = 1
  /\ evaluated = <<>>
  /\ tradeResult = TradePending
  /\ submitted = 0
  /\ resolvers = 0
  /\ cancelQty = 0
  /\ cancelPc = "start"
  /\ cancelSent = <<>>
  /\ cancelResult = CancelPending
  /\ entries = <<>>
  /\ timer = NoTimer
  /\ clock = 0
  /\ subscribed = "never"
  /\ emitted = <<>>
  /\ adds = 0
  /\ liveTimers = 0
  /\ collateralCall = NoCall
  /\ collateralPc = 0
  /\ collateralReads = <<>>
  /\ collateralResult = CollateralPending
  /\ collateralSent = <<>>
  /\ collateralCalls = 0
  /\ enabledFor = [a \in EnabledArguments |-> TRUE]
  /\ poolTokenBalance = 0
  /\ contractSetByMarketContractAddress = NoContractSets
  /\ contractSetByMarketCollateralPoolAddress = NoContractSets
  /\ lookups = <<>>
  /\ constructed = 0
  /\ remoteReads = 0
  /\ marketContract \in {c \in [PRICE_FLOOR : 0..MaxPrice, PRICE_CAP : 0..MaxPrice,
                                 QTY_MULTIPLIER : 1..MaxMultiplier] :
                            c.PRICE_FLOOR <= c.PRICE_CAP}
  /\ calcPrice \in marketContract.PRICE_FLOOR..marketContract.PRICE_CAP
  /\ calcQty = 0
  /\ calcPc = CalcIdle
  /\ calcReads = <<>>
  /\ calculated = NothingCalculated
  /\ chainTx = [blockNumber |-> 1, logs |-> {}, mined |-> FALSE]
  /\ constructedBy = "caller"
  /\ orderTxInfo = Constructed(constructedBy, chainTx)
  /\ invocations = [a \in Accessors |-> NotInvoked]
  /\ remoteChanges = NothingRead
  /\ tradeClock = Now
  /\ tokenContractsByAddress = NoTokenContracts
  /\ tokenCalls = <<>>
  /\ tokensConstructed = 0
  /\ orderArgs = [maker |-> "maker", orderQty |-> 1, price |-> 1, remainingQty |-> 1, salt |-> 1]
  /\ signedOrderPc = 0
  /\ remoteCalls = NoRemoteCalls
  /\ orderHashPromise = [status |-> "pending", value |-> <<>>]
  /\ signedOrderPromise = [status |-> "pending", ecSignature |-> NoSignature]

\* an OrderTransactionInfo just built, on every code path, for every
\* transaction, mined already or still pending
OrderTxInfoInit ==
  /\ accessor = "none"
  /\ eventLogs = <<>>
  /\ getState = "idle"
  /\ stopEventWatcher = "noop"
  /\ stopWatcher = "noop"
  /\ primarySub = "none"
  /\ errorSub = "none"
  /\ pendingStops = {}
  /\ primaryPromise = PendingPromise
  /\ errorPromise = PendingPromise
  /\ result = PendingPromise
  /\ delivered = 0
  /\ firstMatch = NoMatch
  /\ signedOrder = [taker |-> NULL_ADDRESS, expirationTimestamp |-> Now, remainingQty |-> 1,
                    orderQty |-> 1, makerFee |-> 0, takerFee |-> 0, price |-> 1]
  /\ fillQty = 1
  /\ txParams = [from |-> "undefined"]
  /\ ledger = NothingRead
  /\ tradePc = 1
  /\ evaluated = <<>>
  /\ tradeResult = TradePending
  /\ submitted = 0
  /\ resolvers = 0
  /\ cancelQty = 0
  /\ cancelPc = "start"
  /\ cancelSent = <<>>
  /\ cancelResult = CancelPending
  /\ entries = <<>>
  /\ timer = NoTimer
  /\ clock = 0
  /\ subscribed = "never"
  /\ emitted = <<>>
  /\ adds = 0
  /\ liveTimers = 0
  /\ collateralCall = NoCall
  /\ collateralPc = 0
  /\ collateralReads = <<>>
  /\ collateralResult = CollateralPending
  /\ collateralSent = <<>>
  /\ collateralCalls = 0
  /\ enabledFor = [a \in EnabledArguments |-> TRUE]
  /\ poolTokenBalance = 0
  /\ contractSetByMarketContractAddress = NoContractSets
  /\ contractSetByMarketCollateralPoolAddress = NoContractSets
  /\ lookups = <<>>
  /\ constructed = 0
  /\ remoteReads = 0
  /\ marketContract = [PRICE_FLOOR |-> PRICE_FLOOR, PRICE_CAP |-> PRICE_CAP,
                       QTY_MULTIPLIER |-> QTY_MULTIPLIER]
  /\ calcPrice = PRICE_FLOOR
  /\ calcQty = 0
  /\ calcPc = CalcIdle
  /\ calcReads = <<>>
  /\ calculated = NothingCalculated
  /\ chainTx \in [blockNumber : Blocks, logs : TxLogSets, mined : BOOLEAN]
  /\ constructedBy \in ConstructionPaths
  /\ orderTxInfo = Constructed(constructedBy, chainTx)
  /\ invocations = [a \in Accessors |-> NotInvoked]
  /\ remoteChanges = NothingRead
  /\ tradeClock = Now
  /\ tokenContractsByAddress = NoTokenContracts
  /\ tokenCalls = <<>>
  /\ tokensConstructed = 0
  /\ orderArgs = [maker |-> "maker", orderQty |-> 1, price |-> 1, remainingQty |-> 1, salt |-> 1]
  /\ signedOrderPc = 0
  /\ remoteCalls = NoRemoteCalls
  /\ orderHashPromise = [status |-> "pending", value |-> <<>>]
  /\ signedOrderPromise = [status |-> "pending", ecSignature |-> NoSignature]

\* no deposit or withdraw call made yet, for every answer of the ledger about
\* the caller and every pool balance within the bounds
CollateralInit ==
  /\ accessor = "none"
  /\ eventLogs = <<>>
  /\ getState = "idle"
  /\ stopEventWatcher = "noop"
  /\ stopWatcher = "noop"
  /\ primarySub = "none"
  /\ errorSub = "none"
  /\ pendingStops = {}
  /\ primaryPromise = PendingPromise
  /\ errorPromise = PendingPromise
  /\ result = PendingPromise
  /\ delivered = 0
  /\ firstMatch = NoMatch
  /\ signedOrder = [taker |-> NULL_ADDRESS, expirationTimestamp |-> Now, remainingQty |-> 1,
                    orderQty |-> 1, makerFee |-> 0, takerFee |-> 0, price |-> 1]
  /\ fillQty = 1
  /\ txParams = [from |-> "undefined"]
  /\ ledger = NothingRead
  /\ tradePc = 1
  /\ evaluated = <<>>
  /\ tradeResult = TradePending
  /\ submitted = 0
  /\ resolvers = 0
  /\ cancelQty = 0
  /\ cancelPc = "start"
  /\ cancelSent = <<>>
  /\ cancelResult = CancelPending
  /\ entries = <<>>
  /\ timer = NoTimer
  /\ clock = 0
  /\ subscribed = "never"
  /\ emitted = <<>>
  /\ adds = 0
  /\ liveTimers = 0
  /\ collateralCall = NoCall
  /\ collateralPc = 0
  /\ collateralReads = <<>>
  /\ collateralResult = CollateralPending
  /\ collateralSent = <<>>
  /\ collateralCalls = 0
  /\ enabledFor \in [EnabledArguments -> BOOLEAN]
  /\ poolTokenBalance \in Amounts
  /\ contractSetByMarketContractAddress = NoContractSets
  /\ contractSetByMarketCollateralPoolAddress = NoContractSets
  /\ lookups = <<>>
  /\ constructed = 0
  /\ remoteReads = 0
  /\ marketContract = [PRICE_FLOOR |-> PRICE_FLOOR, PRICE_CAP |-> PRICE_CAP,
                       QTY_MULTIPLIER |-> QTY_MULTIPLIER]
  /\ calcPrice = PRICE_FLOOR
  /\ calcQty = 0
  /\ calcPc = CalcIdle
  /\ calcReads = <<>>
  /\ calculated = NothingCalculated
  /\ chainTx = [blockNumber |-> 1, logs |-> {}, mined |-> FALSE]
  /\ constructedBy = "caller"
  /\ orderTxInfo = Constructed(constructedBy, chainTx)
  /\ invocations = [a \in Accessors |-> NotInvoked]
  /\ remoteChanges = NothingRead
  /\ tradeClock = Now
  /\ tokenContractsByAddress = NoTokenContracts
  /\ tokenCalls = <<>>
  /\ tokensConstructed = 0
  /\ orderArgs = [maker |-> "maker", orderQty |-> 1, price |-> 1, remainingQty |-> 1, salt |-> 1]
  /\ signedOrderPc = 0
  /\ remoteCalls = NoRemoteCalls
  /\ orderHashPromise = [status |-> "pending", value |-> <<>>]
  /\ signedOrderPromise = [status |-> "pending", ecSignature |-> NoSignature]

SpecResolver == ResolverInit /\ [][ResolverNext]_vars

SpecTrade == TradeInit /\ [][TradeNext]_vars

\* a trade call with the ledger and the clock moving while it is suspended
SpecTradeRace == TradeRaceInit /\ [][TradeRaceNext]_vars

SpecWatcher == WatcherInit /\ [][WatcherNext]_vars

SpecCancel == CancelInit /\ [][CancelNext]_vars

SpecCollateral == CollateralInit /\ [][CollateralNext]_vars

\* a fresh ContractWrapper (WatcherInit leaves every component as constructed)
SpecCache == WatcherInit /\ [][CacheNext]_vars

SpecCalc == CalcInit /\ [][CalcNext]_vars

SpecOrderSign == OrderSignInit /\ [][OrderSignNext]_vars

\* a fresh ContractWrapper and its token contract cache
SpecTokens == WatcherInit /\ [][TokenNext]_vars

SpecOrderTxInfo == OrderTxInfoInit /\ [][OrderTxInfoNext]_vars

\* a trade and a cancel of the same order object, in any interleaving
OrderCallsNext ==
  \/ TradeNext
  \/ CancelNext

SpecOrderCalls == TradeInit /\ [][OrderCallsNext]_vars

\* the scheduler with its environment's scheduling: a timer whose deadline has
\* passed is eventually run by the event loop, and time keeps passing
SpecWatcherLive ==
  WatcherInit /\ [][WatcherNext]_vars /\ WF_vars(TimerFire) /\ WF_vars(Tick)

\* ---------------------------------------------------------------------------
\* Properties: OrderTransactionInfo (checked under SpecResolver)
\* ---------------------------------------------------------------------------
Settled == result.status # "pending"
HistoryHit == getState = "returned" /\ HasFoundEvent(eventLogs)
HistoryMiss == getState = "returned" /\ ~HasFoundEvent(eventLogs)

\* C1: when the accessor's promise has settled, neither the primary
\* (filled/cancelled) subscription nor the error subscription is still open.
C1_NoSubscriptionOutlivesAccessor ==
  Settled => (primarySub # "open" /\ errorSub # "open")

\* C5: a rejection produced by the error branch carries the kind given by
\* the error code alone: 0 OrderExpired, 1 OrderDead, anything else
\* UnknownOrderError.
C5_KindDeterminedByCode ==
  (result.status = "rejected" /\ result.by = "error") =>
    /\ (result.code = 0 => result.kind = "OrderExpired")
    /\ (result.code = 1 => result.kind = "OrderDead")
    /\ (result.code \notin {0, 1} => result.kind = "UnknownOrderError")

\* C6: if the first event delivered for the resolver's hash is an error event
\* with code 0 (no filled event for the hash in the historical logs either),
\* a settled filledQty is a rejection with OrderExpired.
C6_ErrorFirstRejectsWithOrderExpired ==
  (accessor = "filledQty" /\ ~HasFoundEvent(eventLogs) /\ Settled
     /\ firstMatch.stream = "error" /\ firstMatch.code = 0) =>
    (result.status = "rejected" /\ result.kind = "OrderExpired")

\* C7 as stated: when the historical query holds a filled event for the
\* resolver's hash, filledQty resolves with its quantity and no live
\* subscription at all has been opened.
C7_NoSubscriptionOnHistoryHit ==
  (accessor = "filledQty" /\ HistoryHit) =>
    /\ result.status = "resolved"
    /\ primarySub = "none"
    /\ errorSub = "none"

\* C7 amended: when the historical query returns a filled event for the
\* resolver's hash, no live subscription on the filled-event stream is
\* opened, and filledQty is resolved with the quantity of the first such
\* event unless the error branch had already rejected it; the error
\* subscription has been opened all the same.
C7_HistoryHitOpensOnlyErrorWatch ==
  (accessor = "filledQty" /\ HistoryHit) =>
    /\ primarySub = "none"
    /\ errorSub # "none"
    /\ \/ result.status = "rejected" /\ result.by = "error"
       \/ /\ result.status = "resolved"
          /\ \E i \in 1..Len(eventLogs) :
               /\ eventLogs[i].transactionHash = txHash
               /\ \A j \in 1..(i - 1) : eventLogs[j].transactionHash # txHash
               /\ result.qty = eventLogs[i].qty

C7_Witness ==
  /\ accessor = "filledQty"
  /\ HistoryHit
  /\ result.status = "resolved"
  /\ errorSub = "open"

\* C8: when the historical query held nothing for the hash and the first
\* event delivered for the hash is a filled/cancelled event (no matching
\* error event came first), a settled accessor is resolved with that
\* event's quantity.
C8_WatchResolvesWithFirstMatch ==
  (HistoryMiss /\ Settled /\ firstMatch.stream = "primary") =>
    (result.status = "resolved" /\ result.qty = firstMatch.qty)

\* C9: an accessor never rejects with anything other than OrderExpired,
\* OrderDead or UnknownOrderError, a failing stop call included.
C9_RejectsOnlyWithErrorKinds ==
  result.status = "rejected" =>
    result.kind \in {"OrderExpired", "OrderDead", "UnknownOrderError"}

\* ---------------------------------------------------------------------------
\* Properties: tradeOrderAsync (checked under SpecTrade)
\* ---------------------------------------------------------------------------
CheckOrder ==
  <<"settled", "taker", "expiry", "remainingQty", "buySell", "signature", "usersEnabled",
    "makerFeeBalance", "makerFeeAllowance", "takerFeeBalance", "takerFeeAllowance",
    "makerCollateral", "takerCollateral">>

LocalErrorKinds ==
  {"ContractAlreadySettled", "InvalidTaker", "OrderExpired", "OrderFilledOrCancelled",
   "BuySellMismatch", "InvalidSignature", "UserNotEnabledForContract",
   "InsufficientBalanceForTransfer", "InsufficientAllowanceForTransfer",
   "InsufficientCollateralBalance"}

\* the checks that need no remote read
ArgumentChecks == {"taker", "expiry", "remainingQty", "buySell"}

\* C2: the checks are evaluated in the fixed order settled, taker, expiry,
\* remaining quantity, buy/sell, signature, users enabled, maker fee balance,
\* maker fee allowance, taker fee balance, taker fee allowance, maker
\* collateral, taker collateral; no check after a failing one is evaluated
\* (a failing check on the arguments stops the pipeline at that check at the
\* latest, whatever else fails), and the call rejects with the kind of the
\* earliest failing check.
C2_FailFastInFixedOrder ==
  /\ Len(evaluated) <= Len(CheckOrder)
  /\ evaluated = SubSeq(CheckOrder, 1, Len(evaluated))
  /\ \A k \in 1..Len(evaluated) :
       CheckFails(evaluated[k], ledger) =>
         /\ k = Len(evaluated)
         /\ tradeResult = [status |-> "rejected", error |-> ErrorOf(evaluated[k])]
  /\ \A k \in 1..Len(CheckOrder) :
       (CheckOrder[k] \in ArgumentChecks /\ CheckFails(CheckOrder[k], ledger)) =>
         Len(evaluated) <= k
  /\ tradeResult.error \in LocalErrorKinds =>
       /\ evaluated # <<>>
       /\ CheckFails(evaluated[Len(evaluated)], ledger)
       /\ tradeResult.error = ErrorOf(evaluated[Len(evaluated)])

C2_Witness ==
  /\ tradeResult.error = "InvalidTaker"
  /\ CheckFails("expiry", ledger)
  /\ CheckFails("remainingQty", ledger)
  /\ CheckFails("buySell", ledger)

\* C3: a trade transaction is sent only after every check has passed, at
\* most one is sent, and a call rejected with a local ErrorKind has sent
\* nothing and built no resolver.
C3_SubmitsOnlyAfterAllChecks ==
  /\ submitted <= 1
  /\ resolvers <= submitted
  /\ submitted = 1 =>
       /\ evaluated = CheckOrder
       /\ \A k \in 1..Len(CheckOrder) : ~CheckFails(CheckOrder[k], ledger)
  /\ (tradeResult.status = "rejected" /\ tradeResult.error \in LocalErrorKinds) =>
       (submitted = 0 /\ resolvers = 0)

C3_Witness ==
  /\ submitted = 1
  /\ resolvers = 1
  /\ tradeResult.status = "resolved"
  /\ signedOrder.makerFee > 0
  /\ fillQty # 0

\* ---------------------------------------------------------------------------
\* Properties: ExpirationWatcher (checked under SpecWatcher)
\* ---------------------------------------------------------------------------
\* C4: entries that were pending together are notified in ascending order of
\* expirationInstantMs, equal instants in insertion order, whatever the
\* order in which they were added.
C4_EmittedInExpirationOrder ==
  \A i, j \in 1..Len(emitted) :
    (i < j /\ emitted[j].sawEmitted < i) =>
      \/ emitted[i].expirationInstantMs < emitted[j].expirationInstantMs
      \/ /\ emitted[i].expirationInstantMs = emitted[j].expirationInstantMs
         /\ emitted[i].seq < emitted[j].seq

C4_Witness ==
  /\ Len(emitted) >= 2
  /\ emitted[2].sawEmitted = 0
  /\ emitted[2].seq < emitted[1].seq
  /\ emitted[1].expirationInstantMs < emitted[2].expirationInstantMs

\* C10: the observer is never notified of an identifier before the clock
\* has reached that entry's expirationInstantMs.
C10_NeverNotifiedEarly ==
  \A i \in 1..Len(emitted) : emitted[i].at >= emitted[i].expirationInstantMs

C10_Witness ==
  /\ Len(emitted) >= 1
  /\ entries # <<>>
  /\ entries[1].seq < emitted[1].seq
  /\ entries[1].expirationInstantMs > clock

PendingIds == {entries[i].identifier : i \in 1..Len(entries)}
EmittedIds == {emitted[i].identifier : i \in 1..Len(emitted)}

\* C11: with an observer subscribed and no unsubscribe, every pending entry
\* is eventually notified (the clock passes every instant within the bound)
\* and then no longer held; no addOrder is notified twice, the notification
\* carries the identifier of the entry, and an emitted entry is not held.
C11_EveryEntryNotifiedOnce ==
  /\ [](/\ \A i, j \in 1..Len(emitted) : emitted[i].seq = emitted[j].seq => i = j
        /\ \A i \in 1..Len(emitted), k \in 1..Len(entries) :
             emitted[i].seq # entries[k].seq
        /\ \A i, j \in 1..Len(entries) :
             entries[i].identifier = entries[j].identifier => i = j)
  /\ \A h \in OrderHashes :
       (subscribed = "yes" /\ h \in PendingIds) ~>
         (subscribed = "unsubscribed" \/ (h \notin PendingIds /\ h \in EmittedIds))

C11_Witness ==
  /\ subscribed = "yes"
  /\ Len(emitted) = 2
  /\ emitted[1].identifier # emitted[2].identifier
  /\ emitted[1].at < emitted[2].at
  /\ entries = <<>>

\* C12: once unsubscribe() has been called no notification fires and no timer
\* is pending, ever after; unsubscribe() can always be called (it raises no
\* error), and called again, or with nothing pending, it changes nothing
\* beyond marking the scheduler unsubscribed.
C12_UnsubscribeIsFinal ==
  /\ [](ENABLED unsubscribe)
  /\ [](subscribed = "unsubscribed" => timer = NoTimer)
  /\ [][(subscribed = "unsubscribed") =>
          (emitted' = emitted /\ timer' = NoTimer /\ subscribed' = "unsubscribed")]_vars
  /\ [][unsubscribe => (emitted' = emitted /\ timer' = NoTimer)]_vars
  /\ [][(unsubscribe /\ entries = <<>> /\ timer = NoTimer) =>
          UNCHANGED <<entries, timer, clock, emitted, adds>>]_vars
  /\ [][(unsubscribe /\ entries = <<>> /\ subscribed = "unsubscribed") =>
          UNCHANGED watcherVars]_vars

C12_Witness ==
  /\ subscribed = "unsubscribed"
  /\ adds >= 1
  /\ entries = <<>>
  /\ emitted = <<>>
  /\ clock = MaxClock

\* ---------------------------------------------------------------------------
\* Properties: the single checks of tradeOrderAsync (checked under SpecTrade)
\* ---------------------------------------------------------------------------
\* the settled-status read has returned
SettledRead == "isSettled" \in DOMAIN ledger

\* C13: when order.remainingQty is 0 and the settled, taker and expiry checks
\* pass, the call is rejected with OrderFilledOrCancelled whatever the fill
\* quantity is, nothing is submitted, and the settled-status read is the
\* only remote read made.
C13_ZeroRemainingRejectsWithoutRemoteCall ==
  (/\ SettledRead
   /\ signedOrder.remainingQty = 0
   /\ ~CheckFails("settled", ledger)
   /\ ~CheckFails("taker", ledger)
   /\ ~CheckFails("expiry", ledger)) =>
    /\ tradeResult = [status |-> "rejected", error |-> "OrderFilledOrCancelled"]
    /\ DOMAIN ledger = {"isSettled"}
    /\ submitted = 0

C13_Witness ==
  /\ tradeResult.error = "OrderFilledOrCancelled"
  /\ CheckFails("buySell", ledger)
  /\ DOMAIN ledger = {"isSettled"}

\* C14 as stated: an order that passed the settled and taker checks with
\* now >= expirationTimestamp, now = expirationTimestamp included, is
\* rejected with OrderExpired and nothing is submitted.
C14_ExpiredFromItsInstantOn ==
  (/\ SettledRead
   /\ ~CheckFails("settled", ledger)
   /\ ~CheckFails("taker", ledger)
   /\ Now >= signedOrder.expirationTimestamp) =>
    /\ tradeResult = [status |-> "rejected", error |-> "OrderExpired"]
    /\ submitted = 0

\* the sign of a quantity: -1, 0 or 1
Sign(x) == IF x < 0 THEN -1 ELSE IF x = 0 THEN 0 ELSE 1

\* C15 as stated: once the settled, taker, expiry and remaining-quantity
\* checks passed, the call is rejected with BuySellMismatch exactly when the
\* sign (negative, zero, positive) of order.orderQty differs from the sign
\* of fillQty.
C15_RejectsExactlyOnSignMismatch ==
  (/\ SettledRead
   /\ ~CheckFails("settled", ledger)
   /\ ~CheckFails("taker", ledger)
   /\ ~CheckFails("expiry", ledger)
   /\ ~CheckFails("remainingQty", ledger)) =>
    (tradeResult.error = "BuySellMismatch" <=>
       Sign(signedOrder.orderQty) # Sign(fillQty))

\* C16: on an unsettled contract the call is rejected with InvalidTaker
\* exactly when order.taker is not the null address and differs from the
\* sender, a missing sender counting as the null address.
C16_InvalidTakerExactlyOnMismatch ==
  (SettledRead /\ ~ledger.isSettled) =>
    (tradeResult.error = "InvalidTaker" <=>
       /\ signedOrder.taker # NULL_ADDRESS
       /\ signedOrder.taker #
            (IF txParams.from = "undefined" THEN NULL_ADDRESS ELSE txParams.from))

C16_Witness ==
  /\ tradeResult.error = "InvalidTaker"
  /\ signedOrder.taker = "taker"
  /\ txParams.from = "undefined"

\* the remote read f has returned
Read(f) == f \in DOMAIN ledger

\* the fee comparisons that have been made and found the amount below the fee
MakerBalanceShort == Read("makerMktBalance") /\ ledger.makerMktBalance < signedOrder.makerFee
MakerAllowanceShort ==
  Read("makersMktAllowance") /\ ledger.makersMktAllowance < signedOrder.makerFee
TakerBalanceShort == Read("takerMktBalance") /\ ledger.takerMktBalance < signedOrder.takerFee
TakerAllowanceShort ==
  Read("takersMktAllowance") /\ ledger.takersMktAllowance < signedOrder.takerFee

FeeErrors == {"InsufficientBalanceForTransfer", "InsufficientAllowanceForTransfer"}

\* C17: in the fee step (reached once the first seven checks passed) a maker
\* balance below makerFee rejects with InsufficientBalanceForTransfer;
\* otherwise a maker allowance below makerFee rejects with
\* InsufficientAllowanceForTransfer; otherwise a taker balance below takerFee
\* rejects with InsufficientBalanceForTransfer; otherwise a taker allowance
\* below takerFee rejects with InsufficientAllowanceForTransfer; amounts at
\* or above the fee, the fee itself included, pass all four.
C17_FeeStepOrderAndThreshold ==
  Read("makerMktBalance") =>
    /\ MakerBalanceShort =>
         (tradeResult.error = "InsufficientBalanceForTransfer" /\ ~Read("makersMktAllowance"))
    /\ (~MakerBalanceShort /\ MakerAllowanceShort) =>
         (tradeResult.error = "InsufficientAllowanceForTransfer" /\ ~Read("takerMktBalance"))
    /\ (~MakerBalanceShort /\ ~MakerAllowanceShort /\ TakerBalanceShort) =>
         (tradeResult.error = "InsufficientBalanceForTransfer" /\ ~Read("takersMktAllowance"))
    /\ (~MakerBalanceShort /\ ~MakerAllowanceShort /\ ~TakerBalanceShort
          /\ TakerAllowanceShort) =>
         tradeResult.error = "InsufficientAllowanceForTransfer"
    /\ tradeResult.error \in FeeErrors =>
         (MakerBalanceShort \/ MakerAllowanceShort \/ TakerBalanceShort
            \/ TakerAllowanceShort)
    /\ Read("takersMktAllowance") =>
         (TakerAllowanceShort \/ SubSeq(CheckOrder, 1, 11) = SubSeq(evaluated, 1, 11))
    /\ submitted = 1 => Read("takersMktAllowance")

C17_Witness ==
  /\ Read("takersMktAllowance")
  /\ signedOrder.makerFee > 0
  /\ signedOrder.takerFee > 0
  /\ ledger.makerMktBalance = signedOrder.makerFee
  /\ ledger.makersMktAllowance = signedOrder.makerFee
  /\ ledger.takerMktBalance = signedOrder.takerFee
  /\ ledger.takersMktAllowance = signedOrder.takerFee
  /\ submitted = 1

\* what section 4.2 requires of the maker and of the taker for this trade
NeededByMaker ==
  calculateNeededCollateral(PRICE_FLOOR, PRICE_CAP, QTY_MULTIPLIER, fillQty, signedOrder.price)
NeededByTaker ==
  calculateNeededCollateral(PRICE_FLOOR, PRICE_CAP, QTY_MULTIPLIER, 0 - fillQty,
                            signedOrder.price)

\* C18: in the collateral step the maker needs neededCollateral(fillQty,
\* price) and the taker neededCollateral(-fillQty, price); the call rejects
\* with InsufficientCollateralBalance if either pool balance is below its
\* requirement and passes the step when both are at or above it; a fill of 2
\* at price 100000 with floor 0, cap 200000, multiplier 1 needs 200000 from
\* each party.
C18_CollateralPerSide ==
  /\ calculateNeededCollateral(0, 200000, 1, 2, 100000) = 200000
  /\ calculateNeededCollateral(0, 200000, 1, -2, 100000) = 200000
  /\ Read("makerCollateralBalance") =>
       /\ Read("takerCollateralBalance")
       /\ IF \/ ledger.makerCollateralBalance < NeededByMaker
             \/ ledger.takerCollateralBalance < NeededByTaker
            THEN /\ tradeResult =
                      [status |-> "rejected", error |-> "InsufficientCollateralBalance"]
                 /\ submitted = 0
            ELSE /\ evaluated = CheckOrder
                 /\ tradeResult.error # "InsufficientCollateralBalance"
  /\ tradeResult.error = "InsufficientCollateralBalance" => Read("makerCollateralBalance")

C18_Witness ==
  /\ tradeResult.error = "InsufficientCollateralBalance"
  /\ NeededByMaker = 0
  /\ NeededByTaker > 0
  /\ ledger.takerCollateralBalance > 0

C20_DeadOrderRejectsWithOrderDead ==
  (/\ accessor = "filledQty"
   /\ ~HasFoundEvent(eventLogs)
   /\ delivered = 1
   /\ firstMatch.stream = "error"
   /\ firstMatch.code = ORDER_DEAD_CODE
   /\ Settled) =>
    (result.status = "rejected" /\ result.kind = "OrderDead")

\* ---------------------------------------------------------------------------
\* Properties: the order object (checked under SpecOrderCalls)
\* ---------------------------------------------------------------------------
\* C21: no step of tradeOrderAsync or cancelOrderAsync changes any field of
\* the order passed to it, remainingQty included, whether the call is
\* rejected locally, fails in transport or submits.
C21_OrderNeverModified == [][signedOrder' = signedOrder]_vars

C21_Witness ==
  /\ submitted = 1
  /\ Len(cancelSent) = 1
  /\ fillQty = 1
  /\ signedOrder.remainingQty = 1

\* ---------------------------------------------------------------------------
\* Properties: depositCollateralAsync / withdrawCollateralAsync (checked under
\* SpecCollateral)
\* ---------------------------------------------------------------------------
Depositing == collateralCall.op = "deposit"

Withdrawing == collateralCall.op = "withdraw"

CollateralRejected == collateralResult.status = "rejected"

\* C22: a deposit makes its pre-checks in the order enabled, token balance,
\* allowance; the enabled check is about the market contract deposited into
\* and fails with UserNotEnabledForContract, the balance check fails with
\* InsufficientBalanceForTransfer exactly when the balance is below the
\* amount, the allowance check fails with InsufficientAllowanceForTransfer
\* exactly when the allowance is below the amount; a rejected deposit has sent
\* no transaction and left the pool's token balance as it was.
C22_DepositChecksInOrder ==
  Depositing =>
    /\ \A i \in 1..Len(collateralReads) : collateralReads[i].check = DepositChecks[i]
    /\ Len(collateralReads) >= 1 =>
         /\ collateralReads[1].value = enabledFor[MARKET_CONTRACT]
         /\ ~enabledFor[MARKET_CONTRACT] =>
              collateralResult = [status |-> "rejected",
                                  error |-> "UserNotEnabledForContract"]
    /\ Len(collateralReads) >= 2 => collateralReads[1].value
    /\ Len(collateralReads) >= 3 => collateralReads[2].value >= collateralCall.amount
    /\ \A i \in 2..Len(collateralReads) :
         collateralReads[i].value < collateralCall.amount =>
              /\ i = Len(collateralReads)
              /\ collateralResult =
                   [status |-> "rejected",
                    error |-> IF i = 2 THEN "InsufficientBalanceForTransfer"
                                       ELSE "InsufficientAllowanceForTransfer"]
    /\ (CollateralRejected /\ collateralResult.error # "TransportFailure") =>
         /\ Len(collateralReads) >= 1
         /\ LET last == collateralReads[Len(collateralReads)] IN
              IF Len(collateralReads) = 1 THEN ~last.value
              ELSE last.value < collateralCall.amount
    /\ CollateralRejected =>
         /\ Len(collateralSent) = collateralCall.sentBefore
         /\ poolTokenBalance = collateralCall.poolBefore

\* C23: a withdrawal whose caller's pool balance is below the amount is
\* rejected with InsufficientBalanceForTransfer and sends nothing; one whose
\* balance is at least the amount goes on to the send and, unless the send
\* itself throws, leaves exactly its one withdraw transaction.
C23_WithdrawChecksPoolBalance ==
  (Withdrawing /\ Len(collateralReads) = 1) =>
    LET balance == collateralReads[1].value IN
      /\ collateralReads[1].check = "balance"
      /\ balance < collateralCall.amount =>
           /\ collateralResult = [status |-> "rejected",
                                  error |-> "InsufficientBalanceForTransfer"]
           /\ Len(collateralSent) = collateralCall.sentBefore
           /\ poolTokenBalance = collateralCall.poolBefore
      /\ balance >= collateralCall.amount =>
           \/ /\ collateralResult.status = "pending"
              /\ collateralPc = Len(WithdrawChecks) + 1
              /\ Len(collateralSent) = collateralCall.sentBefore
           \/ /\ collateralResult = [status |-> "rejected", error |-> "TransportFailure"]
              /\ Len(collateralSent) = collateralCall.sentBefore
           \/ /\ collateralResult.status = "resolved"
              /\ Len(collateralSent) = collateralCall.sentBefore + 1
              /\ collateralSent[Len(collateralSent)] =
                   [op |-> "withdraw", amount |-> collateralCall.amount]

\* a withdrawal of exactly the caller's pool balance was submitted
C23_Witness ==
  /\ Withdrawing
  /\ collateralCall.amount = 1
  /\ Len(collateralReads) = 1
  /\ collateralReads[1].value = 1
  /\ collateralResult.status = "resolved"
  /\ Len(collateralSent) = collateralCall.sentBefore + 1

\* ---------------------------------------------------------------------------
\* Properties: the contract set cache (checked under SpecCache)
\* ---------------------------------------------------------------------------
Stored == DOMAIN contractSetByMarketContractAddress

\* the lookups that have returned a contract set for a normalized address
ReturnedFor(a) ==
  {i \in 1..Len(lookups) : lookups[i].pc = "returned" /\ toLowerCase(lookups[i].address) = a}

\* C24: a contract set stored for an address is never replaced by another
\* instance; a lookup of a stored address, in any letter case, returns the
\* stored instance and reads nothing from the contract; the pool address index
\* holds the instance stored for the pool's market contract.
C24_StoredBindingIsFinal ==
  /\ [][\A a \in Stored :
          /\ a \in DOMAIN contractSetByMarketContractAddress'
          /\ contractSetByMarketContractAddress'[a] = contractSetByMarketContractAddress[a]
          /\ \A address \in MarketAddresses :
               (toLowerCase(address) = a
                  /\ getContractSetByMarketContractAddressAsync(address)) =>
                 /\ lookups'[Len(lookups')].pc = "returned"
                 /\ lookups'[Len(lookups')].contractSetWrapper =
                      contractSetByMarketContractAddress[a]
                 /\ remoteReads' = remoteReads
                 /\ constructed' = constructed]_vars
  /\ [](\A a \in Stored :
          /\ PoolAddressOf(a) \in DOMAIN contractSetByMarketCollateralPoolAddress
          /\ contractSetByMarketCollateralPoolAddress[PoolAddressOf(a)] =
               contractSetByMarketContractAddress[a])

\* C25: all lookups of one address that have returned, whether they found the
\* address stored or constructed the set themselves, hold the same instance,
\* and it is the instance the cache holds.
C25_ConcurrentFirstAccessAgrees ==
  \A a \in Stored : \A i \in ReturnedFor(a) :
    lookups[i].contractSetWrapper = contractSetByMarketContractAddress[a]

\* ---------------------------------------------------------------------------
\* Properties: calculateNeededCollateralAsync (checked under SpecCalc)
\* ---------------------------------------------------------------------------
Calculated == DOMAIN calculated

ResolverOutcome ==
  <<result, primaryPromise, errorPromise, primarySub, errorSub, pendingStops,
    stopWatcher, stopEventWatcher>>

\* C28: an event of either live stream that carries another transaction's
\* hash leaves the resolver's promises, subscriptions and stop calls as they
\* were; a resolver is settled, or starts a stop call, only if an event
\* carrying its own hash was found in the history or delivered to it.
C28_ForeignEventsLeaveResolverAlone ==
  /\ [][/\ \A e \in QtyEvents :
             (e.transactionHash # txHash /\ DeliverPrimary(e)) =>
               UNCHANGED ResolverOutcome
        /\ \A e \in ErrEvents :
             (e.transactionHash # txHash /\ DeliverError(e)) =>
               UNCHANGED ResolverOutcome]_vars
  /\ []((Settled \/ pendingStops # {} \/ "stopped" \in {primarySub, errorSub}) =>
          (HistoryHit \/ firstMatch # NoMatch))

\* two events of the other transaction have been delivered to the resolver's
\* subscriptions, and it is still pending with both subscriptions open
C28_Witness ==
  /\ delivered = 2
  /\ firstMatch = NoMatch
  /\ primarySub = "open"
  /\ errorSub = "open"
  /\ ~Settled
  /\ pendingStops = {}

\* ---------------------------------------------------------------------------
\* Properties: the scheduler's timer (checked under SpecWatcher)
\* ---------------------------------------------------------------------------
\* C29: there is never more than one live timer, and there is one exactly
\* when a deadline is held; every step that arms a timer leaves one live
\* timer, set for max(0, earliest expirationInstantMs - now) from now; while
\* the observer is subscribed and entries are pending a timer is live, due no
\* later than the earliest entry (or at once).
C29_OneTimerArmedForEarliest ==
  /\ [](liveTimers <= 1)
  /\ [](liveTimers = 1 <=> timer # NoTimer)
  /\ []((subscribed = "yes" /\ entries # <<>>) =>
          (timer # NoTimer /\ timer <= Max(clock, entries[1].expirationInstantMs)))
  /\ [][(timer' # NoTimer /\ (timer' # timer \/ liveTimers' # liveTimers)) =>
          /\ liveTimers' = 1
          /\ entries' # <<>>
          /\ timer' - clock' = Max(0, entries'[1].expirationInstantMs - clock')]_vars

\* a timer set for a later entry was replaced by one for an earlier entry
\* added afterwards, and one timer is live
C29_Witness ==
  /\ subscribed = "yes"
  /\ Len(entries) = 2
  /\ entries[1].seq = 2
  /\ entries[1].expirationInstantMs < entries[2].expirationInstantMs
  /\ timer = entries[1].expirationInstantMs
  /\ clock < timer
  /\ liveTimers = 1

\* C30: on a subscribed scheduler with pending entries, addOrder with an
\* instant earlier than the earliest pending one sets the timer for the new
\* entry, max(0, instant - now) from now, which is no longer than the delay to
\* the entry that was earliest before; addOrder with an instant later than the
\* earliest pending one leaves the timer and its deadline as they were.
C30_EarlierAddRearmsLaterAddDoesNot ==
  [][\A h \in OrderHashes : \A t \in Instants :
       (subscribed = "yes" /\ entries # <<>> /\ timer # NoTimer /\ addOrder(h, t)) =>
         /\ t < entries[1].expirationInstantMs =>
              /\ timer' - clock = Max(0, t - clock)
              /\ timer' - clock <= Max(0, entries[1].expirationInstantMs - clock)
              /\ liveTimers' = 1
         /\ t > entries[1].expirationInstantMs =>
              /\ timer' = timer
              /\ liveTimers' = liveTimers]_vars

\* after a later entry was added while the timer for the earlier one was
\* already due: the deadline is still the earlier entry's instant
C30_Witness ==
  /\ subscribed = "yes"
  /\ Len(entries) = 2
  /\ entries[2].seq = 2
  /\ entries[1].expirationInstantMs < entries[2].expirationInstantMs
  /\ timer = entries[1].expirationInstantMs
  /\ clock > timer
  /\ liveTimers = 1

C32_OneEntryPerIdentifier ==
  /\ [](\A i \in 1..Len(entries) : \A j \in 1..Len(entries) :
          entries[i].identifier = entries[j].identifier => i = j)
  /\ [](\A i \in 1..Len(emitted) :
          /\ \A j \in 1..Len(entries) :
               entries[j].identifier = emitted[i].identifier =>
                 /\ entries[j].seq > emitted[i].seq
                 /\ entries[j].sawEmitted >= i
          /\ \A j \in (i + 1)..Len(emitted) :
               emitted[j].identifier = emitted[i].identifier =>
                 emitted[j].sawEmitted >= i)
  /\ [][\A h \in OrderHashes : \A t \in Instants :
          addOrder(h, t) =>
            LET mine == SelectSeq(entries', LAMBDA e : e.identifier = h)
            IN /\ Len(mine) = 1
               /\ mine[1].expirationInstantMs = t
               /\ mine[1].seq = adds'
               /\ SelectSeq(entries', LAMBDA e : e.identifier # h) =
                    SelectSeq(entries, LAMBDA e : e.identifier # h)]_vars

\* an identifier supplied twice while pending has been notified once, for
\* the second supply and at its instant
C32_Witness ==
  /\ subscribed = "yes"
  /\ adds = 2
  /\ entries = <<>>
  /\ Len(emitted) = 1
  /\ emitted[1].seq = 2
  /\ emitted[1].sawEmitted = 0
  /\ emitted[1].expirationInstantMs = 2
  /\ emitted[1].at = 2

\* ---------------------------------------------------------------------------
\* Properties: transport errors and the accessor (checked under SpecResolver)
\* ---------------------------------------------------------------------------

\* C33: the accessor settles only after a matching event (found by the
\* historical query or delivered to a subscription); a transport error handed
\* to a callback and a failed historical query settle nothing; and as long as
\* the accessor is pending after its historical query has ended, both of its
\* subscriptions are open, so that a later matching filled/cancelled event or
\* error event can still settle it.
C33_OnlyMatchingEventsSettle ==
  /\ [](Settled => (HistoryHit \/ firstMatch # NoMatch))
  /\ [][((\E stream \in {"primary", "error"} : WatchCallbackError(stream)) \/ GetFails)
          => /\ result' = result
             /\ primaryPromise' = primaryPromise
             /\ errorPromise' = errorPromise]_vars
  /\ []((accessor # "none" /\ ~Settled /\ getState # "pending")
          => (primarySub = "open" /\ errorSub = "open"))

\* ---------------------------------------------------------------------------
\* Properties: block range and accessors of one OrderTransactionInfo (checked
\* under SpecOrderTxInfo)
\* ---------------------------------------------------------------------------
RangeOf(o) == [fromBlock |-> o.fromBlockNumber, toBlock |-> o.toBlockNumber]

\* C34: both accessors can be invoked on one object; every step of one
\* invocation (its query, its callbacks, its stop calls, its settlement) leaves
\* the other invocation's subscriptions and promise as they are; every
\* invocation filters by the object's block range, and no step changes that
\* range after construction.
C34_AccessorsRaceApartOnOneRange ==
  /\ [][orderTxInfo' = orderTxInfo]_vars
  /\ [](\A a \in Accessors :
          invocations[a].invoked => invocations[a].watchFilter = RangeOf(orderTxInfo))
  /\ [][\A a, b \in Accessors :
          (a # b /\ invocations'[a] # invocations[a]) => invocations'[b] = invocations[b]]_vars

\* both accessors invoked on an object built for a mined transaction:
\* filledQtyAsync has resolved with the filled quantity found by its query
\* while cancelledQtyAsync is pending with both of its subscriptions open, on
\* the same range
C34_Witness ==
  /\ invocations["filledQtyAsync"].result.status = "resolved"
  /\ invocations["filledQtyAsync"].result.qty = 2
  /\ invocations["filledQtyAsync"].primarySub = "none"
  /\ invocations["cancelledQtyAsync"].result.status = "pending"
  /\ invocations["cancelledQtyAsync"].primarySub = "open"
  /\ invocations["cancelledQtyAsync"].errorSub = "open"
  /\ invocations["cancelledQtyAsync"].watchFilter = invocations["filledQtyAsync"].watchFilter
  /\ invocations["filledQtyAsync"].watchFilter.fromBlock = 2

\* C35: an object built by tradeOrderAsync/cancelOrderAsync has a block range
\* that starts at the block its transaction is mined in, and every query and
\* subscription of its accessors uses that range.
C35_RangeStartsAtMinedBlock ==
  constructedBy = "ContractWrapper" =>
    /\ orderTxInfo.fromBlockNumber = chainTx.blockNumber
    /\ \A a \in Accessors :
         invocations[a].invoked => invocations[a].watchFilter.fromBlock = chainTx.blockNumber

\* ---------------------------------------------------------------------------
\* Properties: the ledger moving under a trade call (checked under SpecTradeRace)
\* ---------------------------------------------------------------------------

\* check c, evaluated on what the ledger and the clock say now
CurrentlyFails(c) ==
  IF c = "expiry" THEN signedOrder.expirationTimestamp < tradeClock
  ELSE CheckFails(c, CurrentLedger)

\* C36: a submitted trade has passed every check on the values read when the
\* check was made; a change of the ledger or of the clock while the call is
\* suspended changes nothing in the call; the call that has passed its last
\* check submits whatever the ledger says by then, and the submission reads
\* nothing and checks nothing again.
C36_SubmitsOnValuesAsRead ==
  /\ [](submitted = 1 =>
          /\ evaluated = CheckOrder
          /\ \A k \in 1..Len(evaluated) : ~CheckFails(evaluated[k], ledger))
  /\ [][((\E f \in DOMAIN ledger : \E v \in FieldValues(f) : LedgerChanges(f, v)) \/ TimePasses)
          => UNCHANGED tradeVars]_vars
  /\ [](tradePc = SubmitPc => ENABLED TradeSubmit)
  /\ [][TradeSubmit => (ledger' = ledger /\ evaluated' = evaluated)]_vars

\* a trade has been submitted although the contract was settled after the
\* settled check had passed
C36_Witness ==
  /\ submitted = 1
  /\ tradeResult.status = "resolved"
  /\ ~ledger.isSettled
  /\ "isSettled" \in DOMAIN remoteChanges
  /\ CurrentlyFails("settled")

\* ---------------------------------------------------------------------------
\* Properties: the token contract cache (checked under SpecTokens)
\* ---------------------------------------------------------------------------

\* C37: whatever the order of calls and of their callers' resumption, the
\* calls for one lower-cased token address all get one and the same ERC20
\* instance, which is the one stored under that address; one instance has
\* been built per lower-cased address asked for, and a stored instance is
\* never replaced.
C37_OneTokenContractPerAddress ==
  /\ [](\A i, j \in 1..Len(tokenCalls) :
          toLowerCase(tokenCalls[i].tokenAddress) = toLowerCase(tokenCalls[j].tokenAddress)
            => tokenCalls[i].tokenContract = tokenCalls[j].tokenContract)
  /\ [](\A i \in 1..Len(tokenCalls) :
          /\ toLowerCase(tokenCalls[i].tokenAddress) \in DOMAIN tokenContractsByAddress
          /\ tokenContractsByAddress[toLowerCase(tokenCalls[i].tokenAddress)]
               = tokenCalls[i].tokenContract)
  /\ [](tokensConstructed =
          Cardinality({toLowerCase(tokenCalls[i].tokenAddress) : i \in 1..Len(tokenCalls)}))
  /\ [][\A a \in DOMAIN tokenContractsByAddress :
          a \in DOMAIN tokenContractsByAddress' /\
          tokenContractsByAddress'[a] = tokenContractsByAddress[a]]_vars

\* two callers, one passing the address in mixed case and one in lower case,
\* both called before either resumed, hold the one instance built for the
\* first; a caller for another token holds the second instance
C37_Witness ==
  /\ Len(tokenCalls) = 3
  /\ tokenCalls[1].tokenAddress = "0xAb"
  /\ tokenCalls[2].tokenAddress = "0xab"
  /\ tokenCalls[3].tokenAddress = "0xcd"
  /\ ~tokenCalls[1].received
  /\ tokenCalls[2].received
  /\ tokenCalls[1].tokenContract = ERC20(1, "0xAb")
  /\ tokenCalls[2].tokenContract = ERC20(1, "0xAb")
  /\ tokenCalls[3].tokenContract = ERC20(2, "0xcd")
  /\ tokensConstructed = 2

\* ---------------------------------------------------------------------------
\* Properties: order hash failure and signing (checked under SpecOrderSign)
\* ---------------------------------------------------------------------------

\* C38: once the remote createOrderHash call has failed, createOrderHashAsync
\* has resolved with the string 'Error while creating order hash', never
\* rejected; the failure sends createSignedOrderAsync on to the signing step
\* without settling it; and when the signer then returns, the call resolves
\* with a SignedOrder of the order's fields whose signature is the maker's
\* signature of that string, which is not the order's hash. The call rejects
\* only when the library binding or the signer fails.
C38_HashFailureIsSignedOver ==
  /\ [](remoteCalls.createOrderHash = "failed" =>
          orderHashPromise = [status |-> "resolved", value |-> ErrorWhileCreatingOrderHash])
  /\ [][OrderHashFails =>
          (signedOrderPc' = 3 /\ signedOrderPromise'.status = "pending")]_vars
  /\ []((remoteCalls.createOrderHash = "failed" /\ remoteCalls.signMessage = "returned") =>
          /\ signedOrderPromise.status = "resolved"
          /\ signedOrderPromise.ecSignature =
               signMessage(orderArgs.maker, ErrorWhileCreatingOrderHash)
          /\ signedOrderPromise.ecSignature.message # createOrderHash(orderArgs))
  /\ [](signedOrderPromise.status = "rejected" =>
          (remoteCalls.createAndValidate = "failed" \/ remoteCalls.signMessage = "failed"))

\* the hash computation failed and the call returned a SignedOrder signed by
\* the maker over the error string
C38_Witness ==
  /\ remoteCalls.createOrderHash = "failed"
  /\ signedOrderPromise.status = "resolved"
  /\ signedOrderPromise.ecSignature.signer = orderArgs.maker
  /\ signedOrderPromise.ecSignature.message = ErrorWhileCreatingOrderHash
  /\ orderHashPromise.status = "resolved"

====
